---- MODULE Spec2Model ----
(***************************************************************************)
(* A model of the PDF -> JSON -> CSV conversion pipeline:                  *)
(*   utils/chunk.py            chunk_text                                  *)
(*   services/transformer.py   merge_json_fragments, parse_tables_from_csv *)
(*   utils/io.py               robust_read_csv                             *)
(*   services/api.py           generate_structured_json, handle_api_error  *)
(*   app/main.py               the Streamlit script                        *)
(* Strings are sequences of one-character strings (chunker) or of lexical  *)
(* tokens (JSON, CSV, table markers).  Indices into strings are Python's   *)
(* 0-based indices; s[i] of Python is s[i+1] here.                         *)
(***************************************************************************)
EXTENDS Integers, Sequences, FiniteSets, TLC

VARIABLES
    \* ---- utils/chunk.py: chunk_text ----
    text,           \* the argument text
    max_chars,      \* the argument max_chars
    current_pos,    \* local current_pos
    chunks,         \* local chunks
    cpc,            \* position in chunk_text: "loop" | "done"
    chunk_ret,      \* the returned list (<<>> until the return)
    iters,          \* number of loop iterations executed so far
    \* ---- services/transformer.py: merge_json_fragments ----
    json_fragments, \* the argument json_fragments (each a token sequence)
    frag_i,         \* index of the fragment the for loop handles next
    merged_data,    \* local merged_data (members in insertion order)
    mpc,            \* position: "start" | "loop" | "done" | "raised"
    merge_ret,      \* the returned text (<<>> until the return)
    \* ---- utils/io.py: robust_read_csv ----
    csv_text,       \* the argument csv_text (a token sequence)
    has_header,     \* the argument has_header
    csv_pc,         \* position: "start" | "done" | "raised"
    csv_path,       \* the return statement taken: "blank" | "primary" |
                    \* "emptydata" | "fallback"
    df,             \* the returned DataFrame
    \* ---- services/transformer.py: parse_tables_from_csv ----
    csv_response_text, \* the argument csv_response_text (a token sequence)
    matches,        \* local matches; each match also records where it lies
    match_i,        \* index of the match the for loop handles next
    tables,         \* local tables: <<name, DataFrame>> items in insertion order
    tab_pc,         \* position: "start" | "loop" | "done" | "raised"
    tab_ret,        \* the returned mapping (<<>> until the return)
    \* ---- app/main.py and services/api.py: the Streamlit script ----
    uploaded_pdf,   \* widget: the name of the uploaded PDF ("" for None)
    google_api_key, \* main.py: whether google_api_key is set after line 39
    button,         \* widget: "Generate CSV tables" clicked for this run
    last_uploaded_pdf_name, \* st.session_state entries
    pages_text,
    generated_json_data,
    csv_tables_generated,
    app_pc,         \* position of the script run: "idle" between runs,
                    \* else the line of the script reached
    text_chunks,    \* generate_structured_json: local text_chunks
    chunk_idx,      \* generate_structured_json: idx of the for loop
    all_responses,  \* generate_structured_json: local all_responses
    json_output_text, \* main.py: json_output_text
    calls,          \* history: the chunk calls issued to the LLM in this run
    merge_arg,      \* history: the list handed to merge_json_fragments
    run_end,        \* history: how the last script run ended
    csv_output_text, \* main.py: csv_output_text, once the CSV call returned
    screen,         \* what the CSV steps of the run have put on the page
    uploaded_file,  \* widget: the file in the uploader (0 for None)
    origin,         \* history: the file each cached entry was computed from
    key_cfg,        \* the key typed in the sidebar, GOOGLE_API_KEY of the
                    \* environment, and what configure_api returns
    suggestions_just_generated, \* st.session_state entry (absent as FALSE)
    did,            \* history: what this run has attempted so far
    \* ---- services/api.py: the prompts of generate_structured_json and
    \* ---- generate_csv_from_json ----
    pages_arg,      \* the argument pages_text
    context_text,   \* the four context arguments
    relationships_text,
    additional_context_text,
    manual_context_text,
    examples,       \* the argument examples (<<>> for None)
    json_text,      \* generate_csv_from_json: the arguments json_text,
    table_names,    \* table_names and
    example_snippets, \* example_snippets
    prompt_chunks,  \* generate_structured_json: local text_chunks
    example_prompt, \* generate_structured_json: local example_prompt
    prompt_idx,     \* idx of the for loop of line 81
    prompts,        \* history: the prompts built, in order
    prompt_pc,      \* position: "json" | "loop" | "csv" | "done"
    \* ---- the pipeline run twice in one process on the same inputs ----
    twin_run,       \* which run is under way: 1 or 2
    twin_pc,        \* the stage the run has reached
    twin_in,        \* the inputs: page texts, configuration, LLM responses
    twin_out,       \* what the stages of the pipeline last produced
    twin_first,     \* history: what the first run produced
    \* ---- services/api.py: handle_api_error ----
    err_e,          \* the exception handed to handle_api_error: its args
    err_step,       \* step_name
    err_shown,      \* the messages put on the page, in order
    err_pc,         \* "call" | "stopped" | "returned"
    \* ---- prompts/schema.py: OutputModel ----
    val_doc,        \* the JSON text handed to OutputModel.model_validate_json
    val_verdict     \* "none" | "accepted" | "rejected" (ValidationError)

chunkVars == <<text, max_chars, current_pos, chunks, cpc, chunk_ret, iters>>

mergeVars == <<json_fragments, frag_i, merged_data, mpc, merge_ret>>

csvVars == <<csv_text, has_header, csv_pc, csv_path, df>>

tabVars == <<csv_response_text, matches, match_i, tables, tab_pc, tab_ret>>

appVars == <<uploaded_pdf, google_api_key, button, last_uploaded_pdf_name,
             pages_text, generated_json_data, csv_tables_generated, app_pc,
             text_chunks, chunk_idx, all_responses, json_output_text,
             calls, merge_arg, run_end, csv_output_text, screen,
             uploaded_file, origin, key_cfg, suggestions_just_generated, did>>

promptVars == <<pages_arg, context_text, relationships_text,
                additional_context_text, manual_context_text, examples,
                json_text, table_names, example_snippets, prompt_chunks,
                example_prompt, prompt_idx, prompts, prompt_pc>>

twinVars == <<twin_run, twin_pc, twin_in, twin_out, twin_first>>

errVars == <<err_e, err_step, err_shown, err_pc>>

valVars == <<val_doc, val_verdict>>

vars ==
    <<chunkVars, mergeVars, csvVars, tabVars, appVars, promptVars,
      twinVars, errVars, valVars>>

\* the variables each component leaves alone
notChunkVars ==
    <<mergeVars, csvVars, tabVars, appVars, promptVars, twinVars,
      errVars, valVars>>
notMergeVars ==
    <<chunkVars, csvVars, tabVars, appVars, promptVars, twinVars,
      errVars, valVars>>
notCsvVars ==
    <<chunkVars, mergeVars, tabVars, appVars, promptVars, twinVars,
      errVars, valVars>>
notTabVars ==
    <<chunkVars, mergeVars, csvVars, appVars, promptVars, twinVars,
      errVars, valVars>>
notAppVars ==
    <<chunkVars, mergeVars, csvVars, tabVars, promptVars, twinVars,
      errVars, valVars>>
notPromptVars ==
    <<chunkVars, mergeVars, csvVars, tabVars, appVars, twinVars, errVars,
      valVars>>
notTwinVars ==
    <<chunkVars, mergeVars, csvVars, tabVars, appVars, promptVars,
      errVars, valVars>>
notErrVars ==
    <<chunkVars, mergeVars, csvVars, tabVars, appVars, promptVars,
      twinVars, valVars>>
notValVars ==
    <<chunkVars, mergeVars, csvVars, tabVars, appVars, promptVars,
      twinVars, errVars>>

----------------------------------------------------------------------------
(* Generic helpers *)

Min(a, b) == IF a < b THEN a ELSE b

SetMax(S) == CHOOSE x \in S : \A y \in S : y <= x
SetMin(S) == CHOOSE x \in S : \A y \in S : x <= y

\* All sequences over S of length 0..n
SeqsUpTo(S, n) == UNION {[1..k -> S] : k \in 0..n}

RECURSIVE Concat(_)
Concat(ss) == IF ss = <<>> THEN <<>> ELSE Head(ss) \o Concat(Tail(ss))

----------------------------------------------------------------------------
(* The state of a component that is not running *)

\* chunk_text not running
ChunkIdle ==
    /\ text = <<>>
    /\ max_chars = 0
    /\ current_pos = 0
    /\ chunks = <<>>
    /\ cpc = "idle"
    /\ chunk_ret = <<>>
    /\ iters = 0

\* merge_json_fragments not running
MergeIdle ==
    /\ json_fragments = <<>>
    /\ frag_i = 0
    /\ merged_data = <<>>
    /\ mpc = "idle"
    /\ merge_ret = <<>>

EmptyFrame == [columns |-> <<>>, index |-> <<>>, rows |-> <<>>]

\* robust_read_csv not running
CsvIdle ==
    /\ csv_text = <<>>
    /\ has_header = TRUE
    /\ csv_pc = "idle"
    /\ csv_path = ""
    /\ df = EmptyFrame

\* parse_tables_from_csv not running
TablesIdle ==
    /\ csv_response_text = <<>>
    /\ matches = <<>>
    /\ match_i = 0
    /\ tables = <<>>
    /\ tab_pc = "idle"
    /\ tab_ret = <<>>

\* a st.session_state entry: not set, set to None, or set to a value
SsAbsent == [st |-> "absent", v |-> <<>>]
SsNone == [st |-> "none", v |-> <<>>]
SsValue(x) == [st |-> "value", v |-> x]

\* merge_json_fragments not called in this run
NoMerge == [called |-> FALSE, frags |-> <<>>]

\* the page before the CSV steps have written to it: no format error, no
\* raw output (st.code), no download button, no JSON (st.json), no report
\* that no JSON was generated
ScreenBlank == [csv_error |-> FALSE, coded |-> FALSE, code |-> <<>>,
                downloads |-> <<>>, key_error |-> FALSE, json |-> <<>>,
                no_json |-> FALSE]

\* os.environ without GOOGLE_API_KEY
EnvUnset == "<unset>"

\* nothing typed, nothing in the environment, configure_api not called
NoKeyCfg == [input |-> "", env |-> EnvUnset, configured |-> FALSE]

\* a run that has neither extracted a PDF nor called the LLM
NoneDone == [extract |-> FALSE, llm |-> FALSE, csv_json |-> <<>>,
             generate |-> FALSE]

\* no cached entry: nothing was computed from any file
NoOrigin == [pages |-> 0, json |-> 0, csv |-> 0]

\* the session before the first script run
AppFresh(pc) ==
    /\ uploaded_pdf = ""
    /\ google_api_key = FALSE
    /\ button = FALSE
    /\ last_uploaded_pdf_name = SsAbsent
    /\ pages_text = SsAbsent
    /\ generated_json_data = SsAbsent
    /\ csv_tables_generated = SsAbsent
    /\ app_pc = pc
    /\ text_chunks = <<>>
    /\ chunk_idx = 0
    /\ all_responses = <<>>
    /\ json_output_text = <<>>
    /\ calls = <<>>
    /\ merge_arg = NoMerge
    /\ run_end = ""
    /\ csv_output_text = SsAbsent
    /\ screen = ScreenBlank
    /\ uploaded_file = 0
    /\ origin = NoOrigin
    /\ key_cfg = NoKeyCfg
    /\ suggestions_just_generated = FALSE
    /\ did = NoneDone

\* the script not running
AppIdle == AppFresh("off")

\* nothing produced yet: no chunk, no prompt, no merged text, no table
NoOut == [chunks |-> <<>>, prompts |-> <<>>,
          merged |-> [raised |-> FALSE, text |-> <<>>], tables |-> <<>>]

\* no inputs
NoIn == [pages |-> <<>>, context |-> <<>>, examples |-> <<>>,
         responses |-> <<>>, csv_response |-> <<>>, swallow |-> FALSE]

\* the pipeline not running
TwinIdle ==
    /\ twin_run = 0
    /\ twin_pc = "idle"
    /\ twin_in = NoIn
    /\ twin_out = NoOut
    /\ twin_first = NoOut

\* handle_api_error not called
ErrIdle ==
    /\ err_e = <<>>
    /\ err_step = <<>>
    /\ err_shown = <<>>
    /\ err_pc = "idle"

\* no document under validation
ValIdle ==
    /\ val_doc = <<>>
    /\ val_verdict = "idle"

\* no prompt being built
PromptIdle ==
    /\ pages_arg = <<>>
    /\ context_text = <<>>
    /\ relationships_text = <<>>
    /\ additional_context_text = <<>>
    /\ manual_context_text = <<>>
    /\ examples = <<>>
    /\ json_text = <<>>
    /\ table_names = <<>>
    /\ example_snippets = <<>>
    /\ prompt_chunks = <<>>
    /\ example_prompt = <<>>
    /\ prompt_idx = 0
    /\ prompts = <<>>
    /\ prompt_pc = "idle"

----------------------------------------------------------------------------
(* JSON text, json.loads and json.dumps                                    *)
(* A JSON text is a sequence of lexical tokens.  A parsed value is a node  *)
(* [k, t, v, items]: k the member key when the node is a member of an      *)
(* object ("" otherwise), t its type, v the literal of a scalar, items the *)
(* elements of an array or the members of an object (a dict: keys unique,  *)
(* insertion order kept).                                                  *)

WsTokens == {"\n", " "}
StringTokens == {"\"a\"", "\"b\"", "\"a b\"", "\"entities\"", "\"relationships\"",
                 "\"id\"", "\"type\"", "\"name\"", "\"attributes\"", "\"relations\"",
                 "\"parent\"", "\"children\"", "\"missing\"",
                 "\"source\"", "\"target\"", "\"properties\""}
\* numbers, strings, true and null; NaN is a literal json.loads accepts and
\* json.dumps emits
ScalarTokens == StringTokens \cup {"1", "2", "NaN", "true", "null"}

Nil == [k |-> "", t |-> "none", v |-> "", items |-> <<>>]
Scalar(tok) == [k |-> "", t |-> "scalar", v |-> tok, items |-> <<>>]
ArrayOf(elems) == [k |-> "", t |-> "array", v |-> "", items |-> elems]
ObjectOf(members) == [k |-> "", t |-> "object", v |-> "", items |-> members]
WithKey(node, key) == [node EXCEPT !.k = key]

\* A run of "[" deeper than the interpreter's recursion limit, as one token:
\* the scanner of json.loads raises RecursionError on it, which is no
\* json.JSONDecodeError
DeepToken == "[[[[..."

ParseFail == [ok |-> FALSE, err |-> "JSONDecodeError", pos |-> 0, node |-> Nil]
ParseDeep == [ok |-> FALSE, err |-> "RecursionError", pos |-> 0, node |-> Nil]
ParseOk(p, n) == [ok |-> TRUE, err |-> "", pos |-> p, node |-> n]

\* the first index >= i of a token that is not whitespace (Len + 1 if none)
SkipWs(toks, i) ==
    LET rest == {j \in i..Len(toks) : toks[j] \notin WsTokens}
    IN  IF rest = {} THEN Len(toks) + 1
        ELSE CHOOSE j \in rest : \A m \in rest : j <= m

DictHas(d, key) == \E i \in 1..Len(d) : d[i].k = key
DictGet(d, key) == d[CHOOSE i \in 1..Len(d) : d[i].k = key]
DictKeys(d) == {d[i].k : i \in 1..Len(d)}

\* DictSet keeping the value already stored for the key
DictSetKeepFirst(d, key, node) ==
    IF DictHas(d, key) THEN d ELSE Append(d, WithKey(node, key))

\* d[key] = node: replaces the value in place, or appends a new key
DictSet(d, key, node) ==
    IF DictHas(d, key)
    THEN [i \in 1..Len(d) |-> IF d[i].k = key THEN WithKey(node, key) ELSE d[i]]
    ELSE Append(d, WithKey(node, key))

\* d.update(other)
RECURSIVE DictUpdate(_, _)
DictUpdate(d, other) ==
    IF other = <<>> THEN d
    ELSE DictUpdate(DictSet(d, Head(other).k, Head(other)), Tail(other))

RECURSIVE ParseValue(_, _)
RECURSIVE ParseElems(_, _, _, _)
RECURSIVE ParseMembers(_, _, _, _)

\* one JSON value starting at or after index i
ParseValue(toks, i) ==
    LET j == SkipWs(toks, i)
    IN  IF j > Len(toks) THEN ParseFail
        ELSE IF toks[j] \in ScalarTokens THEN ParseOk(j + 1, Scalar(toks[j]))
        ELSE IF toks[j] = "[" THEN ParseElems(toks, j + 1, <<>>, TRUE)
        ELSE IF toks[j] = "{" THEN ParseMembers(toks, j + 1, <<>>, TRUE)
        ELSE IF toks[j] = DeepToken THEN ParseDeep
        ELSE ParseFail

\* the elements of an array, after "[" (first) or after ","
ParseElems(toks, i, acc, first) ==
    LET j == SkipWs(toks, i)
    IN  IF j > Len(toks) THEN ParseFail
        ELSE IF first /\ toks[j] = "]" THEN ParseOk(j + 1, ArrayOf(acc))
        ELSE LET r == ParseValue(toks, j)
                 m == SkipWs(toks, r.pos)
             IN  IF ~r.ok THEN r
                 ELSE IF m > Len(toks) THEN ParseFail
                 ELSE IF toks[m] = "]" THEN ParseOk(m + 1, ArrayOf(Append(acc, r.node)))
                 ELSE IF toks[m] = ","
                      THEN ParseElems(toks, m + 1, Append(acc, r.node), FALSE)
                 ELSE ParseFail

\* the members of an object, after "{" (first) or after ","; a repeated key
\* keeps its first position and takes the last value
ParseMembers(toks, i, acc, first) ==
    LET j == SkipWs(toks, i)
    IN  IF j > Len(toks) THEN ParseFail
        ELSE IF first /\ toks[j] = "}" THEN ParseOk(j + 1, ObjectOf(acc))
        ELSE IF toks[j] \notin StringTokens THEN ParseFail
        ELSE LET c == SkipWs(toks, j + 1)
             IN  IF c > Len(toks) THEN ParseFail
                 ELSE IF toks[c] # ":" THEN ParseFail
                 ELSE LET r == ParseValue(toks, c + 1)
                          m == SkipWs(toks, r.pos)
                      IN  IF ~r.ok THEN r
                          ELSE IF m > Len(toks) THEN ParseFail
                          ELSE IF toks[m] = "}"
                               THEN ParseOk(m + 1, ObjectOf(DictSet(acc, toks[j], r.node)))
                          ELSE IF toks[m] = ","
                               THEN ParseMembers(toks, m + 1,
                                                 DictSet(acc, toks[j], r.node), FALSE)
                          ELSE ParseFail

\* json.loads: the value, or the exception raised: json.JSONDecodeError (no
\* value, text after the value, malformed text) or RecursionError
Loads(toks) ==
    LET r == ParseValue(toks, 1)
    IN  IF ~r.ok THEN [ok |-> FALSE, err |-> r.err, node |-> Nil]
        ELSE IF SkipWs(toks, r.pos) > Len(toks)
             THEN [ok |-> TRUE, err |-> "", node |-> r.node]
             ELSE [ok |-> FALSE, err |-> "JSONDecodeError", node |-> Nil]

RECURSIVE Dumps(_)
RECURSIVE DumpItems(_, _)

\* DumpItems leaving a comma after the last item
DumpItemsTrailingComma(its, keyed) ==
    IF its = <<>> THEN <<>>
    ELSE (IF keyed THEN <<Head(its).k, ":", " ">> ELSE <<>>)
         \o Dumps(Head(its)) \o <<",", "\n">>
         \o DumpItems(Tail(its), keyed)

\* the items of a container, one per line, separated by commas
DumpItems(its, keyed) ==
    IF its = <<>> THEN <<>>
    ELSE (IF keyed THEN <<Head(its).k, ":", " ">> ELSE <<>>)
         \o Dumps(Head(its))
         \o (IF Tail(its) # <<>> THEN <<",", "\n">> ELSE <<>>)
         \o DumpItems(Tail(its), keyed)

\* json.dumps(value, indent=2); a line break with its indentation is one "\n"
Dumps(n) ==
    IF n.t = "scalar" THEN <<n.v>>
    ELSE IF n.t = "array"
         THEN (IF n.items = <<>> THEN <<"[", "]">>
               ELSE <<"[", "\n">> \o DumpItems(n.items, FALSE) \o <<"\n", "]">>)
    ELSE (IF n.items = <<>> THEN <<"{", "}">>
          ELSE <<"{", "\n">> \o DumpItems(n.items, TRUE) \o <<"\n", "}">>)

----------------------------------------------------------------------------
(* utils/chunk.py *)

\* Bounds of the chunker's inputs
MaxTextLen == 5
MaxChars == 3

\* Characters of the chunker's input: two letters, and three whitespace
\* characters of which only newline and space are split points.
Alphabet == {"a", "b", " ", "\n", "\t"}

\* str.strip() with no argument removes these
IsSpace(c) == c \in {" ", "\n", "\t"}

\* Python slice s[a:b] for 0 <= a
Slice(s, a, b) == SubSeq(s, a + 1, Min(b, Len(s)))

\* str.rfind(ch, start, end): the highest index i in [start, end) with
\* s[i] = ch, or -1
RFind(s, ch, start, end) ==
    LET hits == {i \in start..(Min(end, Len(s)) - 1) : s[i + 1] = ch}
    IN  IF hits = {} THEN -1 ELSE SetMax(hits)

\* str.strip()
Strip(s) ==
    LET keep == {i \in 1..Len(s) : ~IsSpace(s[i])}
    IN  IF keep = {} THEN <<>>
        ELSE SubSeq(s, CHOOSE i \in keep : \A j \in keep : i <= j, SetMax(keep))

\* SplitIdx with the hard split one character too far (end_pos for end_pos - 1)
SplitIdxHardOff(t, pos, end_pos) ==
    LET nl == RFind(t, "\n", pos, end_pos)
        s1 == IF nl = -1 \/ nl < pos THEN RFind(t, " ", pos, end_pos) ELSE nl
    IN  IF s1 = -1 \/ s1 < pos THEN end_pos ELSE s1

\* SplitIdx looking for a space before it looks for a newline
SplitIdxSpaceFirst(t, pos, end_pos) ==
    LET sp == RFind(t, " ", pos, end_pos)
        s1 == IF sp = -1 \/ sp < pos THEN RFind(t, "\n", pos, end_pos) ELSE sp
    IN  IF s1 = -1 \/ s1 < pos THEN end_pos - 1 ELSE s1

\* lines 21-29: the index of the last character of the next piece
SplitIdx(t, pos, end_pos) ==
    LET nl == RFind(t, "\n", pos, end_pos)
        s1 == IF nl = -1 \/ nl < pos THEN RFind(t, " ", pos, end_pos) ELSE nl
        s2 == IF s1 = -1 \/ s1 < pos THEN end_pos - 1 ELSE s1
        s3 == IF s2 < pos
              THEN (IF end_pos - 1 < pos THEN Len(t) - 1 ELSE end_pos - 1)
              ELSE s2
    IN  s3

\* NextPos resuming at the split character itself
NextPosStay(split_idx) == split_idx

\* NextPos resuming one character too far
NextPosSkip(split_idx) == split_idx + 2

\* line 33: where the next iteration resumes
NextPos(split_idx) == split_idx + 1

\* lines 17-19 / 30-32: strip the piece and keep it when non-empty
\* Appended without the tests of lines 18 and 31
AppendedUntested(cs, piece) == Append(cs, Strip(piece))

\* lines 17-19, 30-32: the stripped piece is appended if it is not empty
Appended(cs, piece) ==
    IF Strip(piece) # <<>> THEN Append(cs, Strip(piece)) ELSE cs

InitChunk ==
    /\ ValIdle
    /\ ErrIdle
    /\ TwinIdle
    /\ PromptIdle
    /\ MergeIdle
    /\ CsvIdle
    /\ TablesIdle
    /\ AppIdle
    /\ text \in SeqsUpTo(Alphabet, MaxTextLen)
    /\ max_chars \in 1..MaxChars
    /\ current_pos = 0
    /\ chunks = <<>>
    /\ cpc = "loop"
    /\ chunk_ret = <<>>
    /\ iters = 0

\* lines 14-20: the remainder fits; emit it and leave the loop, then line 34
ChunkTail ==
    /\ cpc = "loop"
    /\ current_pos < Len(text)
    /\ current_pos + max_chars >= Len(text)
    /\ chunks' = Appended(chunks, Slice(text, current_pos, Len(text)))
    /\ chunk_ret' = SelectSeq(chunks', LAMBDA c : c # <<>>)
    /\ cpc' = "done"
    /\ iters' = iters + 1
    /\ UNCHANGED <<text, max_chars, current_pos>>
    /\ UNCHANGED notChunkVars

\* lines 14-16, 21-33: split at a boundary and advance
ChunkSplit ==
    /\ cpc = "loop"
    /\ current_pos < Len(text)
    /\ current_pos + max_chars < Len(text)
    /\ LET split_idx == SplitIdx(text, current_pos, current_pos + max_chars)
       IN  /\ chunks' = Appended(chunks, Slice(text, current_pos, split_idx + 1))
           /\ current_pos' = NextPos(split_idx)
    /\ iters' = iters + 1
    /\ UNCHANGED <<text, max_chars, cpc, chunk_ret>>
    /\ UNCHANGED notChunkVars

\* line 14 false, line 34
ChunkReturn ==
    /\ cpc = "loop"
    /\ current_pos >= Len(text)
    /\ chunk_ret' = SelectSeq(chunks, LAMBDA c : c # <<>>)
    /\ cpc' = "done"
    /\ UNCHANGED <<text, max_chars, current_pos, chunks, iters>>
    /\ UNCHANGED notChunkVars

NextChunk == ChunkTail \/ ChunkSplit \/ ChunkReturn

SpecChunk == InitChunk /\ [][NextChunk]_vars

\* the characters that decide where chunk_text splits: a letter and the two
\* split points
SplitAlphabet == {"a", " ", "\n"}

InitChunkSplit ==
    /\ InitChunk
    /\ \A i \in 1..Len(text) : text[i] \in SplitAlphabet

\* chunk_text is a sequential function: once called, it keeps running
SpecChunkFair ==
    InitChunkSplit /\ [][NextChunk]_vars /\ WF_vars(NextChunk)

----------------------------------------------------------------------------
(* utils/io.py: robust_read_csv                                            *)
(* A CSV text is a sequence of tokens: cell texts, the delimiters "," and  *)
(* ";" and the line break.  A cell of a parsed row is the sequence of the  *)
(* tokens it holds (<<>> is the empty string); a row is a sequence of      *)
(* cells.  A DataFrame is [columns, index, rows]: the column labels, and   *)
(* per data row its index cells and its cells.                             *)

\* Bound on the number of lines of a CSV text
MaxCsvLines == 3

\* A field written "a"b: text after a closing quote.  A strict reader (the
\* one pandas builds) raises csv.Error on it; the default reader reads ab.
BadQuoteCell == "\"a\"b"

\* the missing value pandas fills short rows with
NaN == <<"NaN">>

\* DataFrame.empty
FrameEmpty(d) == d.columns = <<>> \/ d.rows = <<>>

CsvLinePool == {
    <<"a", ",", "b">>,
    <<"a">>,
    <<"a", ";", "b">>,
    <<"1", ",", "2">>,
    <<"1", ",", "2", ",", "3">>,
    <<"4">>,
    <<"1", ";", "2", ";", "3">>,
    <<"1", ",">>,
    <<BadQuoteCell, ",", "2">>,
    <<BadQuoteCell, ";", "2", ";", "3">>,
    <<>> }

\* the pieces of toks between occurrences of sep (at least one piece)
RECURSIVE SplitOn(_, _)
SplitOn(toks, sep) ==
    LET hits == {i \in 1..Len(toks) : toks[i] = sep}
    IN  IF hits = {} THEN <<toks>>
        ELSE LET i == CHOOSE h \in hits : \A g \in hits : h <= g
             IN  <<SubSeq(toks, 1, i - 1)>> \o SplitOn(SubSeq(toks, i + 1, Len(toks)), sep)

\* "\n".join(ls)
RECURSIVE JoinLines(_)
JoinLines(ls) ==
    IF ls = <<>> THEN <<>>
    ELSE IF Len(ls) = 1 THEN Head(ls)
    ELSE Head(ls) \o <<"\n">> \o JoinLines(Tail(ls))

\* str.splitlines() of a text that does not end in a line break
SplitLines(toks) == IF toks = <<>> THEN <<>> ELSE SplitOn(toks, "\n")

\* csv.reader on one line: an empty line gives an empty row; the default
\* (non-strict) reader drops the quotes of a badly quoted field
ReaderRow(line, delim) ==
    IF line = <<>> THEN <<>>
    ELSE LET pieces == SplitOn(line, delim)
         IN  [i \in 1..Len(pieces) |->
                 [j \in 1..Len(pieces[i]) |->
                     IF pieces[i][j] = BadQuoteCell THEN "ab" ELSE pieces[i][j]]]

HasBadQuote(line) == \E j \in 1..Len(line) : line[j] = BadQuoteCell

\* the lines the python engine hands to its reader: blank lines are skipped
NonBlank(lines) == SelectSeq(lines, LAMBDA l : l # <<>>)

\* the lines the strict reader accepts
GoodLines(lines) == SelectSeq(lines, LAMBDA l : ~HasBadQuote(l))

\* csv.reader over the lines
ReadRows(lines, delim) == [i \in 1..Len(lines) |-> ReaderRow(lines[i], delim)]

\* header=None: the columns are numbered
RangeNames(n) == [i \in 1..n |-> <<ToString(i - 1)>>]

\* the number of leading cells of the first data row pandas takes as the
\* index: the cells it has more than the header
IndexWidth(data, ncols) ==
    IF data # <<>> /\ Len(data[1]) > ncols THEN Len(data[1]) - ncols ELSE 0

\* on_bad_lines='skip': a row wider than expected is dropped
KeepFitting(data, width) == SelectSeq(data, LAMBDA r : Len(r) <= width)

\* a row narrower than expected is filled with NaN
FillNaN(kept, width) ==
    [i \in 1..Len(kept) |-> kept[i] \o [j \in 1..(width - Len(kept[i])) |-> NaN]]

\* a cell without text is read as a missing value
NaCells(row) == [j \in 1..Len(row) |-> IF row[j] = <<>> THEN NaN ELSE row[j]]

\* the frame of rows of k index cells followed by the column cells
IndexedFrame(columns, filled, k) ==
    [columns |-> columns,
     index |-> [i \in 1..Len(filled) |-> SubSeq(filled[i], 1, k)],
     rows |-> [i \in 1..Len(filled) |->
                  NaCells(SubSeq(filled[i], k + 1, Len(columns) + k))]]

PandasFrameK(columns, data, k) ==
    IndexedFrame(columns,
                 FillNaN(KeepFitting(data, Len(columns) + k), Len(columns) + k), k)

PandasFrame(columns, data) ==
    PandasFrameK(columns, data, IndexWidth(data, Len(columns)))

\* the rows read: none raises EmptyDataError; else the first is the header
\* when hdr
PandasRows(rs, hdr) ==
    IF rs = <<>> THEN [exc |-> "EmptyDataError", df |-> EmptyFrame]
    ELSE [exc |-> "",
          df |-> PandasFrame(IF hdr THEN rs[1] ELSE RangeNames(Len(rs[1])),
                             IF hdr THEN Tail(rs) ELSE rs)]

PandasLines(all, good, hdr, swallow) ==
    IF Len(good) < Len(all) /\ ~swallow
    THEN [exc |-> "ParserError", df |-> EmptyFrame]
    ELSE PandasRows(ReadRows(good, ","), hdr)

PandasNonBlank(all, hdr, swallow) == PandasLines(all, GoodLines(all), hdr, swallow)

\* line 21: pd.read_csv(StringIO(text), header=0 or None, on_bad_lines='skip',
\* engine='python').  Blank lines are skipped.  A line the strict reader
\* rejects either raises (ParserError / csv.Error) or, when swallow, is
\* dropped.  No line at all raises EmptyDataError.  When the first data row
\* is wider than the header its leading surplus cells become the index and
\* widen the expected row; a row wider than expected is a bad line and is
\* skipped; a narrower row is filled with NaN.
PandasReadCsv(stripped, hdr, swallow) ==
    PandasNonBlank(NonBlank(SplitLines(stripped)), hdr, swallow)

\* line 32: csv.Sniffer().sniff(lines[0], delimiters=",;\t|"): the delimiter
\* found in the first line; the comma when it holds none (csv.Error, line 35)
Sniff(line) ==
    IF (\E j \in 1..Len(line) : line[j] = ";") /\ ~(\E j \in 1..Len(line) : line[j] = ",")
    THEN ";" ELSE ","

\* sep.join(parts)
RECURSIVE JoinWith(_, _)
JoinWith(parts, sep) ==
    IF parts = <<>> THEN <<>>
    ELSE IF Len(parts) = 1 THEN parts[1]
    ELSE parts[1] \o <<sep>> \o JoinWith(Tail(parts), sep)

\* JoinComma joining with the semicolon of a sniffed dialect
JoinSemicolon(cells) == JoinWith(cells, ";")

\* ",".join(cells)
RECURSIVE JoinComma(_)
JoinComma(cells) ==
    IF cells = <<>> THEN <<>>
    ELSE IF Len(cells) = 1 THEN Head(cells)
    ELSE Head(cells) \o <<",">> \o JoinComma(Tail(cells))

\* lines 59-65: one data row cut or filled to col_count cells
FixRow(row, col_count) ==
    IF Len(row) = col_count THEN row
    ELSE IF Len(row) > col_count
         THEN SubSeq(row, 1, col_count - 1)
                  \o <<JoinComma(SubSeq(row, col_count, Len(row)))>>
         ELSE row \o [j \in 1..(col_count - Len(row)) |-> <<>>]

ColNames(n) == [i \in 1..n |-> <<"col_" \o ToString(i - 1)>>]

\* lines 55-70: the rows with cells, cut or filled to the header's width
FixedFrame(header_row, kept) ==
    [raised |-> FALSE,
     df |-> [columns |-> header_row,
             index |-> [i \in 1..Len(kept) |-> <<>>],
             rows |-> [i \in 1..Len(kept) |-> FixRow(kept[i], Len(header_row))]]]

\* lines 52-54: without a header cell the data rows go to pd.DataFrame as
\* they are, which raises ValueError when one of them holds a cell
FallbackFrame(header_row, data_rows) ==
    IF header_row = <<>>
    THEN [raised |-> \E i \in 1..Len(data_rows) : data_rows[i] # <<>>,
          df |-> EmptyFrame]
    ELSE FixedFrame(header_row, SelectSeq(data_rows, LAMBDA r : r # <<>>))

\* lines 50-51: a header without cells is replaced by col_0, col_1, ...
\* when there are data rows
FallbackHeaderData(header0, data_rows) ==
    FallbackFrame(IF header0 = <<>> /\ data_rows # <<>>
                  THEN ColNames(Len(data_rows[1])) ELSE header0,
                  data_rows)

\* lines 40-49: the first row is the header when has_header
FallbackRows(all_rows, hdr) ==
    IF all_rows = <<>> THEN [raised |-> FALSE, df |-> EmptyFrame]
    ELSE FallbackHeaderData(IF hdr THEN all_rows[1] ELSE ColNames(Len(all_rows[1])),
                            IF hdr THEN Tail(all_rows) ELSE all_rows)

\* lines 27-39: the lines, the delimiter sniffed in the first, the rows
FallbackLines(lines, hdr) ==
    IF lines = <<>> THEN [raised |-> FALSE, df |-> EmptyFrame]
    ELSE FallbackRows(ReadRows(lines, Sniff(lines[1])), hdr)

\* lines 27-73: the manual fallback
FallbackReadCsv(stripped, hdr) == FallbackLines(SplitLines(stripped), hdr)

\* ReadOutcome without the handler of lines 23-24: EmptyDataError leaves
\* the function
ReadOutcomeNoEmptyCatch(stripped, p, f) ==
    IF stripped = <<>> THEN [path |-> "blank", raised |-> FALSE, df |-> EmptyFrame]
    ELSE IF p.exc = "" THEN [path |-> "primary", raised |-> FALSE, df |-> p.df]
    ELSE IF p.exc = "EmptyDataError"
         THEN [path |-> "emptydata", raised |-> TRUE, df |-> EmptyFrame]
    ELSE [path |-> "fallback", raised |-> f.raised, df |-> f.df]

\* lines 17-25: the return statement robust_read_csv takes, given the
\* outcome p of pd.read_csv and the outcome f of the fallback
ReadOutcome(stripped, p, f) ==
    IF stripped = <<>> THEN [path |-> "blank", raised |-> FALSE, df |-> EmptyFrame]
    ELSE IF p.exc = "" THEN [path |-> "primary", raised |-> FALSE, df |-> p.df]
    ELSE IF p.exc = "EmptyDataError"
         THEN [path |-> "emptydata", raised |-> FALSE, df |-> EmptyFrame]
    ELSE [path |-> "fallback", raised |-> f.raised, df |-> f.df]

ReadStripped(stripped, hdr, swallow) ==
    ReadOutcome(stripped, PandasReadCsv(stripped, hdr, swallow),
                FallbackReadCsv(stripped, hdr))

\* robust_read_csv(csv_text, has_header): the return statement taken, the
\* DataFrame returned, and whether an exception left the function
RobustReadCsv(t, hdr, swallow) == ReadStripped(Strip(t), hdr, swallow)

InitCsv ==
    /\ ValIdle
    /\ ErrIdle
    /\ TwinIdle
    /\ PromptIdle
    /\ ChunkIdle
    /\ MergeIdle
    /\ TablesIdle
    /\ AppIdle
    /\ csv_text \in {JoinLines(ls) : ls \in SeqsUpTo(CsvLinePool, MaxCsvLines)}
    /\ has_header \in BOOLEAN
    /\ csv_pc = "start"
    /\ csv_path = ""
    /\ df = EmptyFrame

CsvReturn(path) ==
    /\ csv_pc = "start"
    /\ \E swallow \in BOOLEAN :
          LET r == RobustReadCsv(csv_text, has_header, swallow)
          IN  /\ r.path = path
              /\ csv_path' = path
              /\ df' = r.df
              /\ csv_pc' = IF r.raised THEN "raised" ELSE "done"
    /\ UNCHANGED <<csv_text, has_header>>
    /\ UNCHANGED notCsvVars

\* lines 17-19
CsvBlank == CsvReturn("blank")
\* lines 20-22
CsvPrimary == CsvReturn("primary")
\* lines 23-24
CsvEmptyData == CsvReturn("emptydata")
\* lines 25-73
CsvFallback == CsvReturn("fallback")

\* lines 20-21, 74-76: pd.read_csv raises an exception that is neither
\* EmptyDataError nor ParserError nor csv.Error (which texts do so is the
\* library's affair: any text that is not blank may); st.error, an empty frame
CsvUnexpected ==
    /\ csv_pc = "start"
    /\ Strip(csv_text) # <<>>
    /\ csv_path' = "unexpected"
    /\ df' = EmptyFrame
    /\ csv_pc' = "done"
    /\ UNCHANGED <<csv_text, has_header>>
    /\ UNCHANGED notCsvVars

NextCsv == CsvBlank \/ CsvPrimary \/ CsvEmptyData \/ CsvFallback \/ CsvUnexpected

SpecCsv == InitCsv /\ [][NextCsv]_vars

----------------------------------------------------------------------------
(* services/transformer.py: parse_tables_from_csv *)

\* Bound on the number of pieces the response text is made of
MaxTablePieces == 4

\* the literal parts of the pattern at line 54
StartLit == "=== START OF TABLE: "
EndLit == "=== END OF TABLE: "
CloseLit == " ==="

\* Pieces of an LLM response: marker lines for the names T1, T2 and t1, an
\* end marker followed by more text on its line, a CSV line, a blank line,
\* and two whole blocks (one named T1 with a trailing space)
TablePiecePool == {
    <<StartLit, "T1", CloseLit>>,
    <<EndLit, "T1", CloseLit>>,
    <<EndLit, "T2", CloseLit>>,
    <<EndLit, "t1", CloseLit>>,
    <<EndLit, "T1", CloseLit, "x">>,
    <<"a", ",", "b">>,
    <<>>,
    <<StartLit, "T1", " ", CloseLit, "\n", "1", ",", "2", "\n",
      EndLit, "T1", " ", CloseLit>>,
    <<StartLit, "T2", CloseLit, "\n", "a", "\n", EndLit, "T2", CloseLit>> }

\* \1: the text at index i repeats group 1 (flags: re.DOTALL only, so the
\* comparison is case-sensitive)
BackrefIgnoreCase(t, i, g1) ==
    /\ i + Len(g1) - 1 <= Len(t)
    /\ \A j \in 1..Len(g1) :
          (IF t[i + j - 1] = "t1" THEN "T1" ELSE t[i + j - 1])
              = (IF g1[j] = "t1" THEN "T1" ELSE g1[j])

Backref(t, i, g1) ==
    /\ i + Len(g1) - 1 <= Len(t)
    /\ \A j \in 1..Len(g1) : t[i + j - 1] = g1[j]

\* the indices e at which group 1, begun after the start literal at s, can
\* end: those followed by " ===\n"
NameEnds(t, s) ==
    {e \in (s + 1)..(Len(t) - 1) : t[e] = CloseLit /\ t[e + 1] = "\n"}

\* the indices n of the "\n" at which group 2, begun at b, can end: those
\* followed by the end literal, group 1 again and " ==="
BodyEnds(t, b, g1) ==
    {n \in b..(Len(t) - Len(g1) - 2) :
        /\ t[n] = "\n"
        /\ t[n + 1] = EndLit
        /\ Backref(t, n + 2, g1)
        /\ t[n + 2 + Len(g1)] = CloseLit}

\* (.*?) for group 2 is lazy: the first end that works is taken
BodyEndGreedy(ends) == SetMax(ends)

BodyEndPick(ends) == SetMin(ends)

\* the ends of group 1 for which the rest of the pattern matches
MatchEnds(t, s) ==
    {e \in NameEnds(t, s) : BodyEnds(t, e + 2, SubSeq(t, s + 1, e - 1)) # {}}

\* the match with start literal at s, group 1 ending before e and group 2
\* ending before n; from..to are the indices the match covers
MatchRecord(t, s, e, n) ==
    [name |-> SubSeq(t, s + 1, e - 1),
     csv |-> SubSeq(t, e + 2, n - 1),
     from |-> s,
     to |-> n + 2 + (e - 1 - s)]

\* group 1 is lazy too: the first end of group 1 that works is taken
MatchWithNameEnd(t, s, e) ==
    MatchRecord(t, s, e, BodyEndPick(BodyEnds(t, e + 2, SubSeq(t, s + 1, e - 1))))

MatchAt(t, s) == MatchWithNameEnd(t, s, SetMin(MatchEnds(t, s)))

\* the indices from which the pattern matches, at or after index from
MatchStarts(t, from) ==
    {s \in from..Len(t) : t[s] = StartLit /\ MatchEnds(t, s) # {}}

\* line 55: pattern.findall: the leftmost match, then the leftmost match
\* after its end, and so on
RECURSIVE FindAll(_, _)
FindAllAfter(t, m) == <<m>> \o FindAll(t, m.to + 1)

FindAll(t, from) ==
    IF MatchStarts(t, from) = {} THEN <<>>
    ELSE FindAllAfter(t, MatchAt(t, SetMin(MatchStarts(t, from))))

\* tables[key] = frame: a key already present keeps its place
TablesHas(tbl, key) == \E i \in 1..Len(tbl) : tbl[i][1] = key

\* TablesSet keeping the frame already stored under the key
TablesSetKeepFirst(tbl, key, frame) ==
    IF TablesHas(tbl, key) THEN tbl ELSE Append(tbl, <<key, frame>>)

TablesSet(tbl, key, frame) ==
    IF TablesHas(tbl, key)
    THEN [i \in 1..Len(tbl) |-> IF tbl[i][1] = key THEN <<key, frame>> ELSE tbl[i]]
    ELSE Append(tbl, <<key, frame>>)

InitTables ==
    /\ ValIdle
    /\ ErrIdle
    /\ TwinIdle
    /\ PromptIdle
    /\ ChunkIdle
    /\ MergeIdle
    /\ CsvIdle
    /\ AppIdle
    /\ csv_response_text \in
           {JoinLines(ps) : ps \in SeqsUpTo(TablePiecePool, MaxTablePieces)}
    /\ matches = <<>>
    /\ match_i = 0
    /\ tables = <<>>
    /\ tab_pc = "start"
    /\ tab_ret = <<>>

\* lines 53-55
TablesFindAll ==
    /\ tab_pc = "start"
    /\ matches' = FindAll(csv_response_text, 1)
    /\ match_i' = 1
    /\ tables' = <<>>
    /\ tab_pc' = "loop"
    /\ UNCHANGED <<csv_response_text, tab_ret>>
    /\ UNCHANGED notTabVars

\* lines 56-61 for one match: robust_read_csv(table_csv), then the store
\* under the trimmed name, in the branch for a frame that is empty or not
TablesIter(empty) ==
    /\ tab_pc = "loop"
    /\ match_i <= Len(matches)
    /\ \E swallow \in BOOLEAN :
          \E r \in {RobustReadCsv(matches[match_i].csv, TRUE, swallow)} :
              /\ ~r.raised => FrameEmpty(r.df) = empty
              /\ r.raised => ~empty
              /\ tables' = IF r.raised THEN tables
                           ELSE TablesSet(tables, Strip(matches[match_i].name), r.df)
              /\ match_i' = IF r.raised THEN match_i ELSE match_i + 1
              /\ tab_pc' = IF r.raised THEN "raised" ELSE "loop"
    /\ UNCHANGED <<csv_response_text, matches, tab_ret>>
    /\ UNCHANGED notTabVars

\* lines 58-59
TablesStore == TablesIter(FALSE)

\* TablesStoreEmpty with nothing stored for a frame that is empty
TablesDropEmpty ==
    /\ tab_pc = "loop"
    /\ match_i <= Len(matches)
    /\ \E swallow \in BOOLEAN :
          \E r \in {RobustReadCsv(matches[match_i].csv, TRUE, swallow)} :
              /\ ~r.raised
              /\ FrameEmpty(r.df)
    /\ match_i' = match_i + 1
    /\ UNCHANGED <<csv_response_text, matches, tables, tab_pc, tab_ret>>
    /\ UNCHANGED notTabVars

\* lines 60-61
TablesStoreEmpty == TablesIter(TRUE)

\* line 62
TablesReturn ==
    /\ tab_pc = "loop"
    /\ match_i > Len(matches)
    /\ tab_ret' = tables
    /\ tab_pc' = "done"
    /\ UNCHANGED <<csv_response_text, matches, match_i, tables>>
    /\ UNCHANGED notTabVars

NextTables == TablesFindAll \/ TablesStore \/ TablesStoreEmpty \/ TablesReturn

SpecTables == InitTables /\ [][NextTables]_vars

----------------------------------------------------------------------------
(* services/transformer.py: merge_json_fragments *)

\* Bound on the number of fragments handed to merge_json_fragments
MaxFrags == 3

\* LLM responses: JSON objects (flat, nested, with a repeated key, with
\* layout whitespace, empty), JSON that is no object, text that is no JSON,
\* and text nested too deep to scan
FragmentPool == {
    <<"{", "\"a\"", ":", "1", "}">>,
    <<"{", "\"a\"", ":", "2", ",", "\"b\"", ":", "1", "}">>,
    <<"\n", "{", "\"b\"", ":", " ", "2", "}", "\n">>,
    <<"{", "\"a\"", ":", "{", "\"b\"", ":", "1", "}", "}">>,
    <<"{", "\"a\"", ":", "{", "\"a\"", ":", "2", "}", "}">>,
    <<"{", "\"b\"", ":", "1", ",", "\"a\"", ":", "1", ",", "\"b\"", ":", "2", "}">>,
    <<"{", "}">>,
    <<"[", "{", "\"a\"", ":", "1", "}", "]">>,
    <<"1">>,
    <<"{", "\"b\"", ":", "NaN", "}">>,
    <<"x">>,
    <<"{", "\"a\"", ":", "1", ",", "}">>,
    <<"{", "\"a\"", ":", "1", "}", "x">>,
    <<"{", "\"a\"", ":", DeepToken>>,
    <<>> }

\* lines 28-35, one pass of the for loop: the fragment is parsed; a
\* json.JSONDecodeError is caught and the fragment skipped, any other
\* exception of json.loads propagates; a dict is folded into merged_data;
\* any other value is skipped
MergeFragment(md, frag) ==
    LET r == Loads(frag)
    IN  IF ~r.ok THEN [raised |-> r.err # "JSONDecodeError", md |-> md]
        ELSE IF r.node.t = "object"
             THEN [raised |-> FALSE, md |-> DictUpdate(md, r.node.items)]
             ELSE [raised |-> FALSE, md |-> md]

\* the single fragment parsed and serialized again where it parses
SingleFragmentReserialised(frags) ==
    IF Loads(frags[1]).ok THEN Dumps(Loads(frags[1]).node) ELSE frags[1]

\* line 26: return json_fragments[0]
SingleFragment(frags) == frags[1]

InitMerge ==
    /\ ValIdle
    /\ ErrIdle
    /\ TwinIdle
    /\ PromptIdle
    /\ ChunkIdle
    /\ CsvIdle
    /\ TablesIdle
    /\ AppIdle
    /\ json_fragments \in SeqsUpTo(FragmentPool, MaxFrags)
    /\ frag_i = 0
    /\ merged_data = <<>>
    /\ mpc = "start"
    /\ merge_ret = <<>>

\* lines 23-24
MergeEmpty ==
    /\ mpc = "start"
    /\ json_fragments = <<>>
    /\ merge_ret' = <<>>
    /\ mpc' = "done"
    /\ UNCHANGED <<json_fragments, frag_i, merged_data>>
    /\ UNCHANGED notMergeVars

\* lines 25-26
MergeSingle ==
    /\ mpc = "start"
    /\ Len(json_fragments) = 1
    /\ merge_ret' = SingleFragment(json_fragments)
    /\ mpc' = "done"
    /\ UNCHANGED <<json_fragments, frag_i, merged_data>>
    /\ UNCHANGED notMergeVars

\* lines 27-28: enter the loop
MergeEnter ==
    /\ mpc = "start"
    /\ Len(json_fragments) >= 2
    /\ merged_data' = <<>>
    /\ frag_i' = 1
    /\ mpc' = "loop"
    /\ UNCHANGED <<json_fragments, merge_ret>>
    /\ UNCHANGED notMergeVars

\* lines 28-35: one fragment
MergeLoop ==
    /\ mpc = "loop"
    /\ frag_i <= Len(json_fragments)
    /\ LET o == MergeFragment(merged_data, json_fragments[frag_i])
       IN  /\ merged_data' = o.md
           /\ mpc' = IF o.raised THEN "raised" ELSE "loop"   \* uncaught: leaves the function
    /\ frag_i' = frag_i + 1
    /\ UNCHANGED <<json_fragments, merge_ret>>
    /\ UNCHANGED notMergeVars

\* lines 36-38: serialize merged_data (data that json.loads produced always
\* serializes, so the handler of lines 39-40 is not entered)
MergeDump ==
    /\ mpc = "loop"
    /\ frag_i > Len(json_fragments)
    /\ merge_ret' = Dumps(ObjectOf(merged_data))
    /\ mpc' = "done"
    /\ UNCHANGED <<json_fragments, frag_i, merged_data>>
    /\ UNCHANGED notMergeVars

NextMerge == MergeEmpty \/ MergeSingle \/ MergeEnter \/ MergeLoop \/ MergeDump

SpecMerge == InitMerge /\ [][NextMerge]_vars

----------------------------------------------------------------------------
(* app/main.py and services/api.py: the Streamlit script                   *)
(* Every widget interaction reruns the script from the top; st.stop() ends *)
(* the run.  st.session_state outlives the runs, locals do not.            *)

\* The chunk size of the script run.  chunk_text is called with its default
\* max_chars = 12000; the modelled page texts are a few characters long and
\* the chunk size is scaled down with them.
AppMaxChars == 3

\* names of PDF files the user uploads
PdfNames == {"p1", "p2"}

\* the files a user may put in the uploader: two different files of one name
\* and a file of another name
Files == {1, 2, 3}

\* main.py line 94: uploaded_pdf.name
FileName(f) == IF f = 0 THEN "" ELSE IF f = 3 THEN "p2" ELSE "p1"

\* what extract_tables_from_pdf returns, a list of page texts: one blank
\* page, an empty and a blank page, one short page, three pages
DocPool == {
    << <<" ">> >>,
    << <<>>, <<" ", "\n">> >>,
    << <<"a">> >>,
    << <<"a", "b">>, <<"b", "a">>, <<"b", "b">> >> }

\* response.text of the JSON calls: a document OutputModel accepts, a JSON
\* object it rejects, text that is no JSON, text nested too deep to scan
ResponsePool == {
    <<"{", "\"entities\"", ":", "[", "]", "}">>,
    <<"{", "\"a\"", ":", "1", "}">>,
    <<"x">>,
    <<"{", "\"a\"", ":", DeepToken>> }

\* response.text of the CSV call: one table block, or text without markers
CsvResponsePool == {
    <<StartLit, "T2", CloseLit, "\n", "a", ",", "b", "\n", "1", ",", "2", "\n",
      EndLit, "T2", CloseLit>>,
    <<"a", ",", "b">> }

\* utils/chunk.py lines 11-34 as a function of text and max_chars
RECURSIVE ChunkFrom(_, _, _, _)
ChunkSplitAt(t, mc, pos, cs, split_idx) ==
    ChunkFrom(t, mc, NextPos(split_idx), Appended(cs, Slice(t, pos, split_idx + 1)))

ChunkFrom(t, mc, pos, cs) ==
    IF pos >= Len(t) THEN cs
    ELSE IF pos + mc >= Len(t) THEN Appended(cs, Slice(t, pos, Len(t)))
    ELSE ChunkSplitAt(t, mc, pos, cs, SplitIdx(t, pos, pos + mc))

ChunkText(t, mc) == SelectSeq(ChunkFrom(t, mc, 0, <<>>), LAMBDA c : c # <<>>)

\* services/transformer.py lines 27-40 as a function of the fragments:
\* whether an exception leaves the function, and the text returned
RECURSIVE MergeFrom(_, _, _)
MergeNext(frags, i, o) ==
    IF o.raised THEN [raised |-> TRUE, text |-> <<>>]
    ELSE MergeFrom(frags, i + 1, o.md)

MergeFrom(frags, i, md) ==
    IF i > Len(frags) THEN [raised |-> FALSE, text |-> Dumps(ObjectOf(md))]
    ELSE MergeNext(frags, i, MergeFragment(md, frags[i]))

\* services/transformer.py lines 23-40
MergeJsonFragments(frags) ==
    IF frags = <<>> THEN [raised |-> FALSE, text |-> <<>>]
    ELSE IF Len(frags) = 1 THEN [raised |-> FALSE, text |-> SingleFragment(frags)]
    ELSE MergeFrom(frags, 1, <<>>)

\* services/transformer.py lines 53-62 as a function of the text
RECURSIVE StoreFrom(_, _, _, _)
StoreFrom(ms, i, tbl, swallow) ==
    IF i > Len(ms) THEN tbl
    ELSE StoreFrom(ms, i + 1,
                   TablesSet(tbl, Strip(ms[i].name),
                             RobustReadCsv(ms[i].csv, TRUE, swallow).df),
                   swallow)

ParseTablesFromCsv(t, swallow) == StoreFrom(FindAll(t, 1), 1, <<>>, swallow)

\* prompts/schema.py: the members a model with extra = "forbid" accepts
RelationsKeys == {"\"parent\"", "\"children\"", "\"missing\""}
EntityKeys == {"\"id\"", "\"type\"", "\"name\"", "\"attributes\"", "\"relations\""}
RelationshipKeys == {"\"source\"", "\"target\"", "\"type\"", "\"properties\""}
OutputKeys == {"\"entities\"", "\"relationships\""}

\* a field of type str
IsStr(n) == n.t = "scalar" /\ n.v \in StringTokens

\* None, which every Optional field takes
IsNull(n) == n.t = "scalar" /\ n.v = "null"

\* a field of type bool takes true and false and, not being strict, 0 and 1
IsBool(n) == n.t = "scalar" /\ n.v \in {"true", "false", "0", "1"}

\* a field of type List[str]
IsStrList(n) == n.t = "array" /\ \A i \in 1..Len(n.items) : IsStr(n.items[i])

\* a field of type Dict[str, Any]
IsDict(n) == n.t = "object"

\* line 108: pattern = ^[a-zA-Z0-9-_]+$ on the text between the quotes
IdPattern(n) == n.v \notin {"\"a b\"", "\"\""}

\* an Optional field is given: it is there and is not null
Given(d, key) == DictHas(d, key) /\ ~IsNull(DictGet(d, key))

\* a field without a default must be there
Required(d, key) == DictHas(d, key)

\* lines 100-105: RelationsModel
ValidRelations(n) ==
    /\ n.t = "object"
    /\ DictKeys(n.items) \subseteq RelationsKeys
    /\ Given(n.items, "\"parent\"")
          => IsStr(DictGet(n.items, "\"parent\""))
    /\ Given(n.items, "\"children\"")
          => IsStrList(DictGet(n.items, "\"children\""))
    /\ Given(n.items, "\"missing\"")
          => IsBool(DictGet(n.items, "\"missing\""))

\* ValidEntity under extra = "ignore"
ValidEntityIgnoreExtra(n) ==
    /\ n.t = "object"
    /\ Required(n.items, "\"id\"")
    /\ IsStr(DictGet(n.items, "\"id\""))
    /\ IdPattern(DictGet(n.items, "\"id\""))
    /\ Required(n.items, "\"type\"") /\ IsStr(DictGet(n.items, "\"type\""))
    /\ Required(n.items, "\"name\"") /\ IsStr(DictGet(n.items, "\"name\""))
    /\ Given(n.items, "\"attributes\"")
          => IsDict(DictGet(n.items, "\"attributes\""))
    /\ Given(n.items, "\"relations\"")
          => ValidRelations(DictGet(n.items, "\"relations\""))

\* lines 107-114: EntityModel
ValidEntity(n) ==
    /\ n.t = "object"
    /\ DictKeys(n.items) \subseteq EntityKeys
    /\ Required(n.items, "\"id\"")
    /\ IsStr(DictGet(n.items, "\"id\""))
    /\ IdPattern(DictGet(n.items, "\"id\""))
    /\ Required(n.items, "\"type\"") /\ IsStr(DictGet(n.items, "\"type\""))
    /\ Required(n.items, "\"name\"") /\ IsStr(DictGet(n.items, "\"name\""))
    /\ Given(n.items, "\"attributes\"")
          => IsDict(DictGet(n.items, "\"attributes\""))
    /\ Given(n.items, "\"relations\"")
          => ValidRelations(DictGet(n.items, "\"relations\""))

\* lines 116-122: RelationshipModel
ValidRelationship(n) ==
    /\ n.t = "object"
    /\ DictKeys(n.items) \subseteq RelationshipKeys
    /\ Required(n.items, "\"source\"") /\ IsStr(DictGet(n.items, "\"source\""))
    /\ Required(n.items, "\"target\"") /\ IsStr(DictGet(n.items, "\"target\""))
    /\ Required(n.items, "\"type\"") /\ IsStr(DictGet(n.items, "\"type\""))
    /\ Given(n.items, "\"properties\"")
          => IsDict(DictGet(n.items, "\"properties\""))

\* a field of type List[EntityModel]
IsEntityList(n) ==
    n.t = "array" /\ \A i \in 1..Len(n.items) : ValidEntity(n.items[i])

\* a field of type List[RelationshipModel]
IsRelationshipList(n) ==
    n.t = "array" /\ \A i \in 1..Len(n.items) : ValidRelationship(n.items[i])

\* lines 124-128: OutputModel
ValidOutputNode(n) ==
    /\ n.t = "object"
    /\ DictKeys(n.items) \subseteq OutputKeys
    /\ Required(n.items, "\"entities\"")
    /\ IsEntityList(DictGet(n.items, "\"entities\""))
    /\ Given(n.items, "\"relationships\"")
          => IsRelationshipList(DictGet(n.items, "\"relationships\""))

\* ValidatedBy checking the syntax only
ValidatedBySyntax(r) == r.ok

ValidatedBy(r) == r.ok /\ ValidOutputNode(r.node)

\* main.py line 216: OutputModel.model_validate_json(json_output_text) passes
ValidOutput(t) == ValidatedBy(Loads(t))

\* main.py lines 232-235: the validated document serialized again, indent=2
PrettyJson(t) == Dumps(Loads(t).node)

\* the truth value of a session entry: set, not None, not empty
Truthy(e) == e.st = "value" /\ e.v # <<>>

\* services/api.py line 98: all_responses.append(response.text), put first
CollectedFirst(rs, r) == <<r>> \o rs

\* services/api.py line 98: all_responses.append(response.text)
Collected(rs, r) == Append(rs, r)

\* services/api.py line 29: st.stop() in handle_api_error raises
\* StopException, which is no Exception and is caught nowhere: the script
\* run ends there
HandleApiErrorReturns == FALSE

HandleApiErrorStops == TRUE

InitApp ==
    /\ ValIdle
    /\ ErrIdle
    /\ TwinIdle
    /\ PromptIdle
    /\ ChunkIdle
    /\ MergeIdle
    /\ CsvIdle
    /\ TablesIdle
    /\ AppFresh("idle")

\* the script run ends; its locals are gone
EndRun(how) ==
    /\ app_pc' = "idle"
    /\ run_end' = how
    /\ text_chunks' = <<>>
    /\ chunk_idx' = 0
    /\ all_responses' = <<>>
    /\ json_output_text' = <<>>

\* the locals of generate_structured_json and of the button handler
genLocals == <<text_chunks, chunk_idx, all_responses, json_output_text>>

\* the widgets, whose values a run does not change
widgets == <<uploaded_pdf, google_api_key, button, uploaded_file, key_cfg>>

\* the session entries of the results
results == <<generated_json_data, csv_tables_generated>>

\* the texts the sidebar field may hold and the values GOOGLE_API_KEY may have
KeyInputs == {"", " ", "k"}
EnvKeys == {EnvUnset, "e"}

\* main.py line 31: api_key_input.strip()
StripKey(k) == IF k = " " THEN "" ELSE k

\* main.py lines 29-33: the typed key, else the key of the environment
\* (None as "")
ChosenKey(input, env) ==
    IF input # "" THEN StripKey(input)
    ELSE IF env # EnvUnset THEN env ELSE ""

\* the sidebar and environment of a run; configure_api is called, and may
\* return True, only for a key that is not empty (line 35)
KeyCfgs ==
    {c \in [input : KeyInputs, env : EnvKeys, configured : BOOLEAN] :
        ChosenKey(c.input, c.env) = "" => ~c.configured}

\* GoogleApiKey keeping a key that configure_api refused
GoogleApiKeyUnchecked(c) == ChosenKey(c.input, c.env)

\* main.py lines 29-39: google_api_key after the configuration (None as "")
GoogleApiKey(c) ==
    IF ChosenKey(c.input, c.env) # "" /\ c.configured
    THEN ChosenKey(c.input, c.env) ELSE ""

\* A widget interaction: the script is rerun from the top with the widget
\* values of the moment
AppRerun ==
    /\ app_pc = "idle"
    /\ uploaded_file' \in Files \cup {0}
    /\ uploaded_pdf' = FileName(uploaded_file')
    /\ key_cfg' \in KeyCfgs
    /\ google_api_key' = (GoogleApiKey(key_cfg') # "")
    /\ did' = NoneDone
    /\ UNCHANGED suggestions_just_generated
    /\ button' \in BOOLEAN
    /\ app_pc' = "line92"
    /\ calls' = <<>>
    /\ merge_arg' = NoMerge
    /\ run_end' = ""
    /\ csv_output_text' = SsAbsent
    /\ screen' = ScreenBlank
    /\ UNCHANGED <<last_uploaded_pdf_name, pages_text, results, genLocals>>
    /\ UNCHANGED origin
    /\ UNCHANGED notAppVars

\* main.py line 92: no PDF uploaded, nothing more is done
AppNoPdf ==
    /\ app_pc = "line92"
    /\ uploaded_pdf = ""
    /\ EndRun("completed")
    /\ UNCHANGED <<widgets, last_uploaded_pdf_name, pages_text, results,
                   calls, merge_arg>>
    /\ UNCHANGED <<csv_output_text, screen>>
    /\ UNCHANGED origin
    /\ UNCHANGED <<suggestions_just_generated, did>>
    /\ UNCHANGED notAppVars

\* main.py lines 92-103: a PDF of another name: the cached entries are deleted
AppNewPdf ==
    /\ app_pc = "line92"
    /\ uploaded_pdf # ""
    /\ last_uploaded_pdf_name # SsValue(<<uploaded_pdf>>)
    /\ last_uploaded_pdf_name' = SsValue(<<uploaded_pdf>>)
    /\ pages_text' = SsAbsent
    /\ csv_tables_generated' = SsAbsent
    /\ generated_json_data' = SsAbsent
    /\ app_pc' = "line105"
    /\ UNCHANGED <<widgets, genLocals, calls, merge_arg, run_end>>
    /\ UNCHANGED <<csv_output_text, screen>>
    /\ origin' = NoOrigin
    /\ suggestions_just_generated' = FALSE
    /\ UNCHANGED did
    /\ UNCHANGED notAppVars

\* main.py lines 92-94: the PDF of the last run
AppSamePdf ==
    /\ app_pc = "line92"
    /\ uploaded_pdf # ""
    /\ last_uploaded_pdf_name = SsValue(<<uploaded_pdf>>)
    /\ app_pc' = "line105"
    /\ UNCHANGED <<widgets, last_uploaded_pdf_name, pages_text, results,
                   genLocals, calls, merge_arg, run_end>>
    /\ UNCHANGED <<csv_output_text, screen>>
    /\ UNCHANGED origin
    /\ UNCHANGED <<suggestions_just_generated, did>>
    /\ UNCHANGED notAppVars

\* main.py lines 105-107: no API key: st.error, st.stop
AppNoApiKey ==
    /\ app_pc = "line105"
    /\ ~google_api_key
    /\ EndRun("stopped")
    /\ screen' = [screen EXCEPT !.key_error = TRUE]
    /\ UNCHANGED <<widgets, last_uploaded_pdf_name, pages_text, results,
                   calls, merge_arg>>
    /\ UNCHANGED csv_output_text
    /\ UNCHANGED origin
    /\ UNCHANGED <<suggestions_just_generated, did>>
    /\ UNCHANGED notAppVars

\* main.py lines 110-119: the page texts are extracted and cached
AppExtract ==
    /\ app_pc = "line105"
    /\ google_api_key
    /\ pages_text = SsAbsent
    /\ \E doc \in DocPool : pages_text' = SsValue(doc)
    /\ app_pc' = "line150"
    /\ UNCHANGED <<widgets, last_uploaded_pdf_name, results, genLocals,
                   calls, merge_arg, run_end>>
    /\ UNCHANGED <<csv_output_text, screen>>
    /\ origin' = [origin EXCEPT !.pages = uploaded_file]
    /\ did' = [did EXCEPT !.extract = TRUE]
    /\ UNCHANGED suggestions_just_generated
    /\ UNCHANGED notAppVars

\* main.py lines 110-118: the extraction raises: st.error, st.stop
AppExtractFail ==
    /\ app_pc = "line105"
    /\ google_api_key
    /\ pages_text = SsAbsent
    /\ EndRun("stopped")
    /\ UNCHANGED <<widgets, last_uploaded_pdf_name, pages_text, results,
                   calls, merge_arg>>
    /\ UNCHANGED <<csv_output_text, screen>>
    /\ UNCHANGED origin
    /\ did' = [did EXCEPT !.extract = TRUE]
    /\ UNCHANGED suggestions_just_generated
    /\ UNCHANGED notAppVars

\* main.py lines 110, 119: the page texts are cached already
AppPagesCached ==
    /\ app_pc = "line105"
    /\ google_api_key
    /\ pages_text # SsAbsent
    /\ app_pc' = "line150"
    /\ UNCHANGED <<widgets, last_uploaded_pdf_name, pages_text, results,
                   genLocals, calls, merge_arg, run_end>>
    /\ UNCHANGED <<csv_output_text, screen>>
    /\ UNCHANGED origin
    /\ UNCHANGED <<suggestions_just_generated, did>>
    /\ UNCHANGED notAppVars

\* main.py line 150: no page text, or the suggestions were generated already
AppSuggestSkip ==
    /\ app_pc = "line150"
    /\ ~Truthy(pages_text) \/ suggestions_just_generated
    /\ app_pc' = "line195"
    /\ UNCHANGED <<widgets, last_uploaded_pdf_name, pages_text, results,
                   genLocals, calls, merge_arg, run_end>>
    /\ UNCHANGED <<csv_output_text, screen>>
    /\ UNCHANGED origin
    /\ UNCHANGED <<suggestions_just_generated, did>>
    /\ UNCHANGED notAppVars

\* main.py lines 150-163: the two suggestion calls return; the suggestions
\* are stored and st.rerun() ends the run
AppSuggest ==
    /\ app_pc = "line150"
    /\ Truthy(pages_text)
    /\ ~suggestions_just_generated
    /\ suggestions_just_generated' = TRUE
    /\ did' = [did EXCEPT !.llm = TRUE]
    /\ EndRun("rerun")
    /\ UNCHANGED <<widgets, last_uploaded_pdf_name, pages_text, results,
                   calls, merge_arg>>
    /\ UNCHANGED <<csv_output_text, screen>>
    /\ UNCHANGED origin
    /\ UNCHANGED notAppVars

\* main.py lines 150-159, 164-165: a suggestion call raises; handle_api_error
\* stops the run (were it to return, the script would go on)
AppSuggestFail ==
    /\ app_pc = "line150"
    /\ Truthy(pages_text)
    /\ ~suggestions_just_generated
    /\ did' = [did EXCEPT !.llm = TRUE]
    /\ IF HandleApiErrorStops
       THEN EndRun("stopped")
       ELSE /\ app_pc' = "line195"
            /\ UNCHANGED <<genLocals, run_end>>
    /\ UNCHANGED <<widgets, last_uploaded_pdf_name, pages_text, results,
                   calls, merge_arg>>
    /\ UNCHANGED <<csv_output_text, screen>>
    /\ UNCHANGED origin
    /\ UNCHANGED suggestions_just_generated
    /\ UNCHANGED notAppVars

\* main.py line 195: the button was not clicked
AppNoButton ==
    /\ app_pc = "line195"
    /\ ~button
    /\ app_pc' = "line240"
    /\ UNCHANGED <<widgets, last_uploaded_pdf_name, pages_text, results,
                   genLocals, calls, merge_arg, run_end>>
    /\ UNCHANGED <<csv_output_text, screen>>
    /\ UNCHANGED origin
    /\ UNCHANGED <<suggestions_just_generated, did>>
    /\ UNCHANGED notAppVars

\* main.py lines 195-206 and api.py lines 66-80: the results of the last
\* generation are set to None, the joined page text is chunked
AppGenerate ==
    /\ app_pc = "line195"
    /\ button
    /\ generated_json_data' = SsNone
    /\ csv_tables_generated' = SsNone
    /\ text_chunks' = ChunkText(JoinLines(pages_text.v), AppMaxChars)
    /\ all_responses' = <<>>
    /\ chunk_idx' = 1
    /\ app_pc' = "line81"
    /\ UNCHANGED <<widgets, last_uploaded_pdf_name, pages_text,
                   json_output_text, calls, merge_arg, run_end>>
    /\ UNCHANGED <<csv_output_text, screen>>
    /\ origin' = [origin EXCEPT !.json = 0, !.csv = 0]
    /\ did' = [did EXCEPT !.generate = TRUE]
    /\ UNCHANGED suggestions_just_generated
    /\ UNCHANGED notAppVars

\* the record of the call issued for the chunk of index idx
CallFor(cs, idx) ==
    [chunk |-> idx, of |-> Len(cs), text |-> cs[idx], status |-> "pending",
     resp |-> <<>>]

\* the last call of the history ended with the status and the response
Ended(cl, status, r) ==
    [cl EXCEPT ![Len(cl)] = [@ EXCEPT !.status = status, !.resp = r]]

\* api.py lines 81-97: the prompt for the next chunk is built and
\* generate_content is called
LlmCall ==
    /\ app_pc = "line81"
    /\ chunk_idx <= Len(text_chunks)
    /\ calls' = Append(calls, CallFor(text_chunks, chunk_idx))
    /\ app_pc' = "line97"
    /\ UNCHANGED <<widgets, last_uploaded_pdf_name, pages_text, results,
                   genLocals, merge_arg, run_end>>
    /\ UNCHANGED <<csv_output_text, screen>>
    /\ UNCHANGED origin
    /\ did' = [did EXCEPT !.llm = TRUE]
    /\ UNCHANGED suggestions_just_generated
    /\ UNCHANGED notAppVars

\* api.py lines 97-98: the call returns; its text is collected and the loop
\* goes on with the next chunk
LlmReturn ==
    /\ app_pc = "line97"
    /\ \E r \in ResponsePool :
          /\ all_responses' = Collected(all_responses, r)
          /\ calls' = Ended(calls, "ok", r)
    /\ chunk_idx' = chunk_idx + 1
    /\ app_pc' = "line81"
    /\ UNCHANGED <<widgets, last_uploaded_pdf_name, pages_text, results,
                   text_chunks, json_output_text, merge_arg, run_end>>
    /\ UNCHANGED <<csv_output_text, screen>>
    /\ UNCHANGED origin
    /\ UNCHANGED <<suggestions_just_generated, did>>
    /\ UNCHANGED notAppVars

\* api.py lines 97, 99-100 and 19-29: the call raises; handle_api_error
\* reports it and stops the run (were it to return, the loop would go on)
LlmFail ==
    /\ app_pc = "line97"
    /\ calls' = Ended(calls, "failed", <<>>)
    /\ IF HandleApiErrorStops
       THEN EndRun("stopped")
       ELSE /\ app_pc' = "line81"
            /\ chunk_idx' = chunk_idx + 1
            /\ UNCHANGED <<text_chunks, all_responses, json_output_text, run_end>>
    /\ UNCHANGED <<widgets, last_uploaded_pdf_name, pages_text, results,
                   merge_arg>>
    /\ UNCHANGED <<csv_output_text, screen>>
    /\ UNCHANGED origin
    /\ UNCHANGED <<suggestions_just_generated, did>>
    /\ UNCHANGED notAppVars

\* NoJsonGenerated without the test of line 101: the empty list is merged
\* and the merged text returned
NoJsonGeneratedUntested ==
    /\ app_pc = "line81"
    /\ chunk_idx > Len(text_chunks)
    /\ all_responses = <<>>
    /\ merge_arg' = [called |-> TRUE, frags |-> all_responses]
    /\ json_output_text' = MergeJsonFragments(all_responses).text
    /\ app_pc' = "line215"
    /\ UNCHANGED <<text_chunks, chunk_idx, all_responses, run_end>>
    /\ UNCHANGED <<widgets, last_uploaded_pdf_name, pages_text, results, calls>>
    /\ UNCHANGED <<csv_output_text, screen>>
    /\ UNCHANGED origin
    /\ UNCHANGED <<suggestions_just_generated, did>>
    /\ UNCHANGED notAppVars

\* api.py lines 81, 101-103: the loop is over with nothing collected:
\* st.error, st.stop
NoJsonGenerated ==
    /\ app_pc = "line81"
    /\ chunk_idx > Len(text_chunks)
    /\ all_responses = <<>>
    /\ screen' = [screen EXCEPT !.no_json = TRUE]
    /\ EndRun("stopped")
    /\ UNCHANGED <<widgets, last_uploaded_pdf_name, pages_text, results,
                   calls, merge_arg>>
    /\ UNCHANGED csv_output_text
    /\ UNCHANGED origin
    /\ UNCHANGED <<suggestions_just_generated, did>>
    /\ UNCHANGED notAppVars

\* api.py lines 81, 101, 104-106: the loop is over; the collected responses
\* are merged and the merged text is returned to main.py line 206 (an
\* exception leaving merge_json_fragments ends the run)
AppMerge ==
    /\ app_pc = "line81"
    /\ chunk_idx > Len(text_chunks)
    /\ all_responses # <<>>
    /\ merge_arg' = [called |-> TRUE, frags |-> all_responses]
    /\ \E m \in {MergeJsonFragments(all_responses)} :
          IF m.raised
          THEN EndRun("raised")
          ELSE /\ json_output_text' = m.text
               /\ app_pc' = "line215"
               /\ UNCHANGED <<text_chunks, chunk_idx, all_responses, run_end>>
    /\ UNCHANGED <<widgets, last_uploaded_pdf_name, pages_text, results, calls>>
    /\ UNCHANGED <<csv_output_text, screen>>
    /\ UNCHANGED origin
    /\ UNCHANGED <<suggestions_just_generated, did>>
    /\ UNCHANGED notAppVars

\* main.py lines 215-228: the merged text fails validation: st.error, st.stop
AppValidateFail ==
    /\ app_pc = "line215"
    /\ ~ValidOutput(json_output_text)
    /\ EndRun("stopped")
    /\ UNCHANGED <<widgets, last_uploaded_pdf_name, pages_text, results,
                   calls, merge_arg>>
    /\ UNCHANGED <<csv_output_text, screen>>
    /\ UNCHANGED origin
    /\ UNCHANGED <<suggestions_just_generated, did>>
    /\ UNCHANGED notAppVars

\* main.py lines 215-216, 229-237: the validated document is stored
AppStoreJson ==
    /\ app_pc = "line215"
    /\ ValidOutput(json_output_text)
    /\ generated_json_data' = SsValue(PrettyJson(json_output_text))
    /\ app_pc' = "line240"
    /\ UNCHANGED <<widgets, last_uploaded_pdf_name, pages_text,
                   csv_tables_generated, genLocals, calls, merge_arg, run_end>>
    /\ UNCHANGED <<csv_output_text, screen>>
    /\ origin' = [origin EXCEPT !.json = origin.pages]
    /\ UNCHANGED <<suggestions_just_generated, did>>
    /\ UNCHANGED notAppVars

\* CsvStepDue taking a csv_tables_generated of None for tables
CsvStepDueAbsentOnly(json, tbls) == Truthy(json) /\ tbls.st = "absent"

\* main.py lines 240 and 245: JSON is stored and not empty, and no table
\* mapping is stored or the stored one is None or empty
CsvStepDue(json, tbls) == Truthy(json) /\ ~Truthy(tbls)

\* main.py lines 240-242: st.json shows the stored JSON if there is one
ShowJson(scr, stored) ==
    IF Truthy(stored) THEN [scr EXCEPT !.json = stored.v] ELSE scr

\* main.py lines 240-245: no stored JSON, or the stored JSON is shown and
\* tables are stored already
AppCsvSkip ==
    /\ app_pc = "line240"
    /\ ~CsvStepDue(generated_json_data, csv_tables_generated)
    /\ app_pc' = "line268"
    /\ screen' = ShowJson(screen, generated_json_data)
    /\ UNCHANGED <<widgets, last_uploaded_pdf_name, pages_text, results,
                   genLocals, calls, merge_arg, run_end>>
    /\ UNCHANGED csv_output_text
    /\ UNCHANGED origin
    /\ UNCHANGED <<suggestions_just_generated, did>>
    /\ UNCHANGED notAppVars

\* main.py lines 240-256 and api.py lines 131-153: the stored JSON is shown
\* and the CSV call is issued with it as json_text
CsvLlmCall ==
    /\ app_pc = "line240"
    /\ CsvStepDue(generated_json_data, csv_tables_generated)
    /\ app_pc' = "line153"
    /\ screen' = ShowJson(screen, generated_json_data)
    /\ UNCHANGED <<widgets, last_uploaded_pdf_name, pages_text, results,
                   genLocals, calls, merge_arg, run_end>>
    /\ UNCHANGED csv_output_text
    /\ UNCHANGED origin
    /\ did' = [did EXCEPT !.llm = TRUE, !.csv_json = generated_json_data.v]
    /\ UNCHANGED suggestions_just_generated
    /\ UNCHANGED notAppVars

\* StoredTables storing whatever mapping was parsed, the empty one too
StoredTablesAlways(old, tbl) == SsValue(tbl)

\* main.py lines 261-265: the mapping is stored unless it is empty
StoredTables(old, tbl) == IF tbl = <<>> THEN old ELSE SsValue(tbl)

\* main.py lines 261-263: st.error and st.code(csv_output_text) if the
\* mapping is empty
FormatError(scr, t, tbl) ==
    IF tbl = <<>>
    THEN [scr EXCEPT !.csv_error = TRUE, !.coded = TRUE, !.code = t]
    ELSE scr

\* main.py lines 268-287: a download button for every stored table
Downloads(scr, stored) ==
    IF Truthy(stored) THEN [scr EXCEPT !.downloads = stored.v] ELSE scr

\* api.py line 154 and main.py lines 259-266: the call returns; the tables
\* parsed from its text are stored unless there is none (then an error and
\* the text are shown)
CsvLlmReturn ==
    /\ app_pc = "line153"
    /\ \E t \in CsvResponsePool, swallow \in BOOLEAN :
          /\ csv_output_text' = SsValue(t)
          /\ csv_tables_generated' =
                 StoredTables(csv_tables_generated, ParseTablesFromCsv(t, swallow))
          /\ screen' = FormatError(screen, t, ParseTablesFromCsv(t, swallow))
          /\ origin' = IF ParseTablesFromCsv(t, swallow) = <<>> THEN origin
                       ELSE [origin EXCEPT !.csv = origin.json]
    /\ app_pc' = "line268"
    /\ UNCHANGED <<widgets, last_uploaded_pdf_name, pages_text,
                   generated_json_data, genLocals, calls, merge_arg, run_end>>
    /\ UNCHANGED <<suggestions_just_generated, did>>
    /\ UNCHANGED notAppVars

\* api.py lines 153, 155-156 and 19-29: the call raises; handle_api_error
\* stops the run (were it to return, line 157 would return "" and main.py
\* would find no table in it)
CsvLlmFail ==
    /\ app_pc = "line153"
    /\ IF HandleApiErrorStops
       THEN EndRun("stopped")
       ELSE /\ app_pc' = "line268"
            /\ UNCHANGED <<genLocals, run_end>>
    /\ UNCHANGED <<widgets, last_uploaded_pdf_name, pages_text, results,
                   calls, merge_arg>>
    /\ UNCHANGED <<csv_output_text, screen>>
    /\ UNCHANGED origin
    /\ UNCHANGED <<suggestions_just_generated, did>>
    /\ UNCHANGED notAppVars

\* main.py lines 268-289: the stored tables are shown with their download
\* buttons; the script ends
AppShowTables ==
    /\ app_pc = "line268"
    /\ EndRun("completed")
    /\ screen' = Downloads(screen, csv_tables_generated)
    /\ UNCHANGED csv_output_text
    /\ UNCHANGED <<widgets, last_uploaded_pdf_name, pages_text, results,
                   calls, merge_arg>>
    /\ UNCHANGED origin
    /\ UNCHANGED <<suggestions_just_generated, did>>
    /\ UNCHANGED notAppVars

NextApp ==
    \/ AppRerun \/ AppNoPdf \/ AppNewPdf \/ AppSamePdf \/ AppNoApiKey
    \/ AppExtract \/ AppExtractFail \/ AppPagesCached
    \/ AppSuggestSkip \/ AppSuggest \/ AppSuggestFail \/ AppNoButton
    \/ AppGenerate \/ LlmCall \/ LlmReturn \/ LlmFail \/ NoJsonGenerated
    \/ AppMerge \/ AppValidateFail \/ AppStoreJson \/ AppCsvSkip
    \/ CsvLlmCall \/ CsvLlmReturn \/ CsvLlmFail \/ AppShowTables

SpecApp == InitApp /\ [][NextApp]_vars

----------------------------------------------------------------------------
(* services/api.py: the prompts                                            *)
(* A prompt is a sequence of pieces: the fixed sentences of the f-strings  *)
(* as one piece each, the interpolated texts character by character.  The  *)
(* code fence of three backquotes is written ''' here.                      *)

MaxExamples == 2

\* the fixed pieces of the prompt of generate_structured_json (lines 85-92)
TaskLit == "You are a data extraction expert. Convert the following text extracted from a PDF into a single, well-structured JSON object.\n"
SchemaIntroLit == "The JSON output must strictly follow the given schema:\n'''json\n"
SchemaLit == "SCHEMA_JSON"
SchemaCloseLit == "\n'''\n"
RequiredLit == "All required fields must be present. If a required field is missing or null, double-check the input and do not omit the field.\n"
OptionalLit == "Optional fields can be omitted if no data, but include a \"missing\": true flag within the field object to indicate it is missing.\n"
EnsureLit == "Ensure the JSON is valid and accurately captures all tables and hierarchical relationships.\n"
ChunkOpenLit == "PDF TEXT CHUNK:\n'''text\n"
ChunkCloseLit == "\n'''"

\* the labels of line 90 and line 141
ContextLabel == "CONTEXT:\n"
RelationshipsLabel == "\n\nRELATIONSHIPS:\n"
AdditionalLabel == "\n\nADDITIONAL CONTEXT:\n"
ManualLabel == "\n\nMANUAL CONTEXT:\n"

\* the fixed pieces of the example block (lines 75-80)
ExampleStartLit == "--- START OF EXAMPLE "
ExampleInputLit == " ---\n**EXAMPLE INPUT (TEXT FROM A PDF PAGE):**\n'''text\n"
ExampleOutputLit == "\n'''\n**EXAMPLE OUTPUT (THE DESIRED JSON):**\n"
ExampleEndLit == "\n--- END OF EXAMPLE "
ExampleCloseLit == " ---\n"
NowApplyLit == "Now, apply the same logic and structure from these example(s) to the real input below.\n"

\* the fixed pieces of the prompt of generate_csv_from_json (lines 133-148)
CsvTaskLit == "You are a data transformation expert. Your task is to convert the provided JSON data into multiple, distinct, relational CSV tables as specified.\n"
CsvCountLit == "You must generate exactly "
CsvCountEndLit == " CSV table(s).\n"
CsvNamesLit == "The required table names are: "
CsvUseLit == ".\nUse the provided context, relationships, and CSV examples to determine the correct columns and data for each table.\n"
CsvExamplesLit == "CSV EXAMPLES:\n"
NoCsvExamplesLit == "No CSV examples provided."
CsvInstructionsLit == "\nFollow these output instructions precisely:\n1. ... 2. ... 3. ... 4. ...\n"
JsonDataOpenLit == "JSON DATA TO TRANSFORM:\n'''json\n"

\* the texts a context field may hold
FieldPool == {<<>>, <<"c">>}

\* the few-shot pairs (example text, example JSON)
ExamplePool == {
    [pdf |-> <<"x">>, json |-> <<"{", "}">>],
    [pdf |-> <<"y">>, json |-> <<"[", "]">>] }

\* lines 74-79: the block of the i-th example
ExampleBlock(i, ex) ==
    <<ExampleStartLit, ToString(i), ExampleInputLit>> \o ex.pdf
        \o <<ExampleOutputLit>> \o ex.json
        \o <<ExampleEndLit, ToString(i), ExampleCloseLit>>

\* lines 73-79: the blocks of the examples from the i-th on
RECURSIVE ExampleBlocks(_, _)
ExampleBlocks(exs, i) ==
    IF i > Len(exs) THEN <<>>
    ELSE ExampleBlock(i, exs[i]) \o ExampleBlocks(exs, i + 1)

\* lines 71-80: example_prompt
ExamplePrompt(exs) ==
    IF exs = <<>> THEN <<>> ELSE ExampleBlocks(exs, 1) \o <<NowApplyLit>>

\* lines 90 and 141: the four labeled context sections, each emitted whether
\* or not its text is empty
ContextSections(c, r, a, m) ==
    <<ContextLabel>> \o c \o <<RelationshipsLabel>> \o r
        \o <<AdditionalLabel>> \o a \o <<ManualLabel>> \o m \o <<"\n">>

\* JsonPrompt with the chunk ahead of the instructions
JsonPromptChunkFirst(ep, c, r, a, m, chunk) ==
    <<ChunkOpenLit>> \o chunk \o <<ChunkCloseLit>> \o ep
        \o <<TaskLit, SchemaIntroLit, SchemaLit, SchemaCloseLit, RequiredLit,
             OptionalLit>>
        \o ContextSections(c, r, a, m) \o <<EnsureLit>>

\* lines 83-93: the prompt for one chunk
JsonPrompt(ep, c, r, a, m, chunk) ==
    ep \o <<TaskLit, SchemaIntroLit, SchemaLit, SchemaCloseLit, RequiredLit,
            OptionalLit>>
       \o ContextSections(c, r, a, m)
       \o <<EnsureLit, ChunkOpenLit>> \o chunk \o <<ChunkCloseLit>>

\* lines 131-135: csv_examples_section
CsvExamplesSection(snips) ==
    IF snips # <<>> THEN <<CsvExamplesLit>> \o JoinWith(snips, "\n")
    ELSE <<NoCsvExamplesLit>>

\* lines 136-149: the prompt of generate_csv_from_json
CsvPrompt(jt, names, c, r, a, m, snips) ==
    <<CsvTaskLit, CsvCountLit, ToString(Len(names)), CsvCountEndLit, CsvNamesLit>>
        \o JoinWith(names, ", ") \o <<CsvUseLit>>
        \o ContextSections(c, r, a, m)
        \o CsvExamplesSection(snips)
        \o <<CsvInstructionsLit, JsonDataOpenLit>> \o jt \o <<ChunkCloseLit>>

InitPrompt ==
    /\ ValIdle
    /\ ErrIdle
    /\ TwinIdle
    /\ ChunkIdle
    /\ MergeIdle
    /\ CsvIdle
    /\ TablesIdle
    /\ AppIdle
    /\ context_text \in FieldPool
    /\ relationships_text \in FieldPool
    /\ additional_context_text \in FieldPool
    /\ manual_context_text \in FieldPool
    /\ prompt_chunks = <<>>
    /\ example_prompt = <<>>
    /\ prompt_idx = 0
    /\ prompts = <<>>
    /\ prompt_pc \in {"json", "csv"}
    /\ IF prompt_pc = "json"
       THEN /\ pages_arg \in DocPool
            /\ examples \in SeqsUpTo(ExamplePool, MaxExamples)
            /\ json_text = <<>>
            /\ table_names = <<>>
            /\ example_snippets = <<>>
       ELSE /\ pages_arg = <<>>
            /\ examples = <<>>
            /\ json_text \in ResponsePool
            /\ table_names \in {<< <<"T", "1">> >>, << <<"T", "1">>, <<"T", "2">> >>}
            /\ example_snippets \in {<<>>, << <<"s">> >>, << <<"s">>, <<"t">> >>}

promptArgs == <<pages_arg, context_text, relationships_text,
                additional_context_text, manual_context_text, examples,
                json_text, table_names, example_snippets>>

\* generate_structured_json lines 66-80: the page texts are joined and
\* chunked, example_prompt is rendered
PromptStart ==
    /\ prompt_pc = "json"
    /\ prompt_chunks' = ChunkText(JoinLines(pages_arg), AppMaxChars)
    /\ example_prompt' = ExamplePrompt(examples)
    /\ prompt_idx' = 1
    /\ prompt_pc' = "loop"
    /\ UNCHANGED <<promptArgs, prompts>>
    /\ UNCHANGED notPromptVars

\* lines 81-93: the prompt for the next chunk is built
PromptBuild ==
    /\ prompt_pc = "loop"
    /\ prompt_idx <= Len(prompt_chunks)
    /\ prompts' = Append(prompts,
                         JsonPrompt(example_prompt, context_text,
                                    relationships_text, additional_context_text,
                                    manual_context_text, prompt_chunks[prompt_idx]))
    /\ prompt_idx' = prompt_idx + 1
    /\ UNCHANGED <<promptArgs, prompt_chunks, example_prompt, prompt_pc>>
    /\ UNCHANGED notPromptVars

\* line 81: the chunks are exhausted
PromptLoopEnd ==
    /\ prompt_pc = "loop"
    /\ prompt_idx > Len(prompt_chunks)
    /\ prompt_pc' = "done"
    /\ UNCHANGED <<promptArgs, prompt_chunks, example_prompt, prompt_idx, prompts>>
    /\ UNCHANGED notPromptVars

\* generate_csv_from_json lines 131-149: the prompt is built
CsvPromptBuild ==
    /\ prompt_pc = "csv"
    /\ prompts' = <<CsvPrompt(json_text, table_names, context_text,
                              relationships_text, additional_context_text,
                              manual_context_text, example_snippets)>>
    /\ prompt_pc' = "done"
    /\ UNCHANGED <<promptArgs, prompt_chunks, example_prompt, prompt_idx>>
    /\ UNCHANGED notPromptVars

NextPrompt == PromptStart \/ PromptBuild \/ PromptLoopEnd \/ CsvPromptBuild

SpecPrompt == InitPrompt /\ [][NextPrompt]_vars

----------------------------------------------------------------------------
(* The pipeline run twice                                                  *)
(* generate_structured_json and parse_tables_from_csv are called a second  *)
(* time, in the same process, with the page texts, the configuration and   *)
(* the LLM responses of the first call.  What the first call produced is   *)
(* still in twin_out when a stage of the second call starts; the stage     *)
(* starts from the fresh local the code assigns, not from that value.      *)

\* FreshChunks keeping what an earlier call collected
FreshChunksKept(left) == left

\* utils/chunk.py line 11: chunks = []
FreshChunks(left) == <<>>

\* services/transformer.py line 27: merged_data = {}
FreshMerged(left) == <<>>

\* services/transformer.py line 53: tables = {}
FreshTables(left) == <<>>

\* services/api.py lines 66-68: chunk_text("\n".join(pages_text))
TwinChunks(pages, left) ==
    SelectSeq(ChunkFrom(JoinLines(pages), AppMaxChars, 0, FreshChunks(left)),
              LAMBDA c : c # <<>>)

\* services/api.py lines 71-93: the prompts of all chunks
TwinPrompts(cs, c, exs) ==
    [i \in 1..Len(cs) |-> JsonPrompt(ExamplePrompt(exs), c, <<>>, <<>>, <<>>, cs[i])]

\* services/transformer.py lines 23-40
TwinMerged(frags, left) ==
    IF Len(frags) <= 1 THEN MergeJsonFragments(frags)
    ELSE MergeFrom(frags, 1, FreshMerged(left))

\* services/transformer.py lines 53-62
TwinTablesOf(t, swallow, left) ==
    StoreFrom(FindAll(t, 1), 1, FreshTables(left), swallow)

\* the page texts, the configuration and the behaviour of the installed
\* pandas are fixed before the first run; the LLM responses are fixed when
\* the first run receives them
InitTwin ==
    /\ ValIdle
    /\ ErrIdle
    /\ ChunkIdle
    /\ MergeIdle
    /\ CsvIdle
    /\ TablesIdle
    /\ AppIdle
    /\ PromptIdle
    /\ twin_run = 1
    /\ twin_pc = "chunk"
    /\ twin_in \in [pages : DocPool, context : FieldPool,
                    examples : SeqsUpTo(ExamplePool, 1),
                    responses : {<<>>}, csv_response : {<<>>},
                    swallow : BOOLEAN]
    /\ twin_out = NoOut
    /\ twin_first = NoOut

\* chunk_text
TwinChunk ==
    /\ twin_pc = "chunk"
    /\ twin_out' = [twin_out EXCEPT
                       !.chunks = TwinChunks(twin_in.pages, twin_out.chunks)]
    /\ twin_pc' = "prompt"
    /\ UNCHANGED <<twin_run, twin_in, twin_first>>
    /\ UNCHANGED notTwinVars

\* the prompts; without chunks generate_structured_json stops (line 103)
TwinPrompt ==
    /\ twin_pc = "prompt"
    /\ twin_out' = [twin_out EXCEPT
                       !.prompts = TwinPrompts(twin_out.chunks, twin_in.context,
                                               twin_in.examples)]
    /\ twin_pc' = IF twin_out.chunks = <<>> THEN "end" ELSE "llm"
    /\ UNCHANGED <<twin_run, twin_in, twin_first>>
    /\ UNCHANGED notTwinVars

\* the LLM answers the prompts: anything in the first run, the same in the
\* second
TwinLlm ==
    /\ twin_pc = "llm"
    /\ IF twin_run = 1
       THEN \E rs \in [1..Len(twin_out.chunks) -> ResponsePool] :
                twin_in' = [twin_in EXCEPT !.responses = rs]
       ELSE UNCHANGED twin_in
    /\ twin_pc' = "merge"
    /\ UNCHANGED <<twin_run, twin_out, twin_first>>
    /\ UNCHANGED notTwinVars

\* merge_json_fragments; an exception ends the run
TwinMerge ==
    /\ twin_pc = "merge"
    /\ twin_out' = [twin_out EXCEPT
                       !.merged = TwinMerged(twin_in.responses, twin_out.merged)]
    /\ twin_pc' = IF twin_out'.merged.raised THEN "end" ELSE "csv"
    /\ UNCHANGED <<twin_run, twin_in, twin_first>>
    /\ UNCHANGED notTwinVars

\* the LLM answers the CSV prompt: anything in the first run, the same in
\* the second
TwinCsv ==
    /\ twin_pc = "csv"
    /\ IF twin_run = 1
       THEN \E t \in CsvResponsePool :
                twin_in' = [twin_in EXCEPT !.csv_response = t]
       ELSE UNCHANGED twin_in
    /\ twin_pc' = "tables"
    /\ UNCHANGED <<twin_run, twin_out, twin_first>>
    /\ UNCHANGED notTwinVars

\* parse_tables_from_csv
TwinTables ==
    /\ twin_pc = "tables"
    /\ twin_out' = [twin_out EXCEPT
                       !.tables = TwinTablesOf(twin_in.csv_response,
                                               twin_in.swallow, twin_out.tables)]
    /\ twin_pc' = "end"
    /\ UNCHANGED <<twin_run, twin_in, twin_first>>
    /\ UNCHANGED notTwinVars

\* the first run is over; the second starts on the same inputs
TwinAgain ==
    /\ twin_pc = "end"
    /\ twin_run = 1
    /\ twin_first' = twin_out
    /\ twin_run' = 2
    /\ twin_pc' = "chunk"
    /\ UNCHANGED <<twin_in, twin_out>>
    /\ UNCHANGED notTwinVars

NextTwin ==
    \/ TwinChunk \/ TwinPrompt \/ TwinLlm \/ TwinMerge \/ TwinCsv
    \/ TwinTables \/ TwinAgain

SpecTwin == InitTwin /\ [][NextTwin]_vars

----------------------------------------------------------------------------
(* services/api.py: handle_api_error                                       *)
(* An exception is the sequence of its args; a text is a sequence of       *)
(* characters.  A message on the page is [kind, text], its text the fixed  *)
(* sentences of the f-string as one piece each and the interpolated texts  *)
(* character by character.                                                 *)

\* line 21: the text looked for
IllegalHeaderValue ==
    <<"I", "l", "l", "e", "g", "a", "l", " ",
      "h", "e", "a", "d", "e", "r", " ",
      "v", "a", "l", "u", "e">>

\* other texts an exception may carry
IllegalHeaderValueLower == <<"i">> \o Tail(IllegalHeaderValue)
IllegalHeaderValueCut ==
    SubSeq(IllegalHeaderValue, 1, Len(IllegalHeaderValue) - 1)
IllegalHeaderValueWide ==
    SubSeq(IllegalHeaderValue, 1, 8) \o <<" ">>
        \o SubSeq(IllegalHeaderValue, 9, Len(IllegalHeaderValue))

ExcCores ==
    {IllegalHeaderValue, IllegalHeaderValueLower, IllegalHeaderValueCut,
     IllegalHeaderValueWide, <<>>, <<"4", "0", "3">>}
ExcPrefixes == {<<>>, <<"4", "0", "0", " ">>, SubSeq(IllegalHeaderValue, 1, 7)}
ExcSuffixes == {<<>>, <<"s">>, <<":", " ", "x">>}
ExcTexts ==
    {p \o c \o x : p \in ExcPrefixes, c \in ExcCores, x \in ExcSuffixes}

\* the exceptions: Exception(), Exception(t), Exception(t, u)
ExcPool ==
    {<<>>} \cup {<<t>> : t \in ExcTexts}
           \cup {<<t, u>> : t \in ExcCores, u \in {<<"x">>, IllegalHeaderValue}}

\* the step names of the callers (api.py lines 100, 156; main.py lines 165,
\* 258), the default of line 12, and an empty name
StepPool ==
    {<<"API call">>, <<"JSON generation on chunk ", "1">>,
     <<"CSV generation from JSON">>, <<"auto-context generation">>,
     <<"CSV generation">>, <<>>}

\* repr of a str without quotes or escapes in it
Repr(t) == <<"'">> \o t \o <<"'">>

\* str(e) of BaseException: "" without args, str(args[0]) with one,
\* str(args) with more
RECURSIVE ReprList(_)
ReprList(e) ==
    IF Len(e) = 1 THEN Repr(e[1])
    ELSE Repr(e[1]) \o <<",", " ">> \o ReprList(Tail(e))

StrOfException(e) ==
    IF e = <<>> THEN <<>>
    ELSE IF Len(e) = 1 THEN e[1]
    ELSE <<"(">> \o ReprList(e) \o <<")">>

\* needle in t of two str
Contains(t, needle) ==
    \E i \in 0..(Len(t) - Len(needle)) :
        SubSeq(t, i + 1, i + Len(needle)) = needle

\* IsIllegalHeader testing the start of the text only
IsIllegalHeaderAtStart(t) ==
    /\ Len(t) >= Len(IllegalHeaderValue)
    /\ SubSeq(t, 1, Len(IllegalHeaderValue)) = IllegalHeaderValue

\* line 21: "Illegal header value" in str(e)
IsIllegalHeader(t) == Contains(t, IllegalHeaderValue)

ErrDuringLit == "An error occurred during the "
ErrCannotLit == ". The process cannot continue."
ErrDetailsLit == "Error details: "
ReinstallIntroLit ==
    "This error often points to a problem with your Python libraries. Please try stopping the app and running the following command in your terminal to fix it:"
ReinstallLit ==
    "pip install --upgrade --force-reinstall google-generativeai google-auth grpcio"

\* line 19
StepError(step) ==
    [kind |-> "error", text |-> <<ErrDuringLit>> \o step \o <<ErrCannotLit>>]

\* line 20
DetailsError(e) ==
    [kind |-> "error", text |-> <<ErrDetailsLit>> \o StrOfException(e)]

\* lines 22-27
ReinstallWarning ==
    [kind |-> "warning", text |-> <<ReinstallIntroLit, ReinstallLit>>]

\* lines 19-28: what handle_api_error puts on the page
ErrorMessages(e, step) ==
    <<StepError(step), DetailsError(e)>>
        \o (IF IsIllegalHeader(StrOfException(e)) THEN <<ReinstallWarning>>
            ELSE <<>>)

InitErr ==
    /\ ValIdle
    /\ ChunkIdle
    /\ MergeIdle
    /\ CsvIdle
    /\ TablesIdle
    /\ AppIdle
    /\ PromptIdle
    /\ TwinIdle
    /\ err_e \in ExcPool
    /\ err_step \in StepPool
    /\ err_shown = <<>>
    /\ err_pc = "call"

\* lines 12-29: the messages, then st.stop()
HandleApiError ==
    /\ err_pc = "call"
    /\ err_shown' = ErrorMessages(err_e, err_step)
    /\ err_pc' = IF HandleApiErrorStops THEN "stopped" ELSE "returned"
    /\ UNCHANGED <<err_e, err_step>>
    /\ UNCHANGED notErrVars

NextErr == HandleApiError

SpecErr == InitErr /\ [][NextErr]_vars

----------------------------------------------------------------------------
(* prompts/schema.py: OutputModel.model_validate_json                      *)
(* The documents are built from members: good ones, ones that lack a       *)
(* required member, ones with a member no model declares, ones of a wrong  *)
(* type.                                                                   *)

MaxEntities == 2

\* "key": value
Member(key, value) == <<key, ":">> \o value

\* { members }
Obj(members) == <<"{">> \o JoinWith(members, ",") \o <<"}">>

\* [ elements ]
Arr(elems) == <<"[">> \o JoinWith(elems, ",") \o <<"]">>

IdMember == Member("\"id\"", <<"\"a\"">>)
TypeMember == Member("\"type\"", <<"\"b\"">>)
NameMember == Member("\"name\"", <<"\"a\"">>)
UnknownMember == Member("\"b\"", <<"1">>)

\* the relations of an entity
RelationsPool ==
    {<<"null">>, Obj(<<>>),
     Obj(<<Member("\"parent\"", <<"\"a\"">>),
           Member("\"children\"", Arr(<<<<"\"a\"">>, <<"\"b\"">>>>)),
           Member("\"missing\"", <<"true">>)>>),
     Obj(<<Member("\"parent\"", <<"\"a\"">>), UnknownMember>>),
     Obj(<<Member("\"missing\"", <<"2">>)>>)}

\* the entities
EntityPool ==
    {Obj(ms) : ms \in
        {<<IdMember, TypeMember, NameMember>>,
         <<TypeMember, NameMember>>,
         <<IdMember, NameMember>>,
         <<IdMember, TypeMember>>,
         <<IdMember, TypeMember, NameMember, UnknownMember>>,
         <<IdMember, TypeMember, NameMember,
           Member("\"attributes\"", Obj(<<UnknownMember>>))>>,
         <<IdMember, TypeMember, NameMember, Member("\"attributes\"", <<"1">>)>>,
         <<Member("\"id\"", <<"1">>), TypeMember, NameMember>>,
         <<Member("\"id\"", <<"\"a b\"">>), TypeMember, NameMember>>}}
    \cup {Obj(<<IdMember, TypeMember, NameMember, Member("\"relations\"", r)>>) :
            r \in RelationsPool}
    \cup {<<"1">>}

SourceMember == Member("\"source\"", <<"\"a\"">>)
TargetMember == Member("\"target\"", <<"\"b\"">>)

\* the relationships member of a document, when it has one
RelationshipsPool ==
    {<<"null">>, <<"1">>, Arr(<<>>),
     Arr(<<Obj(<<SourceMember, TargetMember, TypeMember>>)>>),
     Arr(<<Obj(<<SourceMember, TargetMember, TypeMember,
                 Member("\"properties\"", Obj(<<UnknownMember>>))>>)>>),
     Arr(<<Obj(<<SourceMember, TargetMember, TypeMember, UnknownMember>>)>>),
     Arr(<<Obj(<<SourceMember, TypeMember>>)>>)}

\* the entities member of a document, when it has one
EntitiesPool ==
    {Arr(es) : es \in SeqsUpTo(EntityPool, MaxEntities)} \cup {<<"null">>}

\* the documents: objects of any of the three members, and texts that are no
\* object or no JSON
DocumentPool ==
    {Obj(SelectSeq(<<e, r, u>>, LAMBDA m : m # <<>>)) :
        e \in {Member("\"entities\"", x) : x \in EntitiesPool} \cup {<<>>},
        r \in {Member("\"relationships\"", x) : x \in RelationshipsPool}
                 \cup {<<>>},
        u \in {UnknownMember, <<>>}}
    \cup {Arr(<<>>), <<"{">>}

InitVal ==
    /\ ChunkIdle
    /\ MergeIdle
    /\ CsvIdle
    /\ TablesIdle
    /\ AppIdle
    /\ PromptIdle
    /\ TwinIdle
    /\ ErrIdle
    /\ val_doc \in DocumentPool
    /\ val_verdict = "none"

\* main.py line 216: OutputModel.model_validate_json(json_output_text)
\* returns the model or raises ValidationError
ModelValidateJson ==
    /\ val_verdict = "none"
    /\ val_verdict' = IF ValidOutput(val_doc) THEN "accepted" ELSE "rejected"
    /\ UNCHANGED val_doc
    /\ UNCHANGED notValVars

NextVal == ModelValidateJson

SpecVal == InitVal /\ [][NextVal]_vars

----------------------------------------------------------------------------
(* Claims about chunk_text *)

\* C1: for every text and every positive max_chars, every chunk collected or
\* returned by chunk_text has length at most max_chars.
C1_ChunkLenAtMostMax ==
    /\ \A i \in 1..Len(chunks) : Len(chunks[i]) <= max_chars
    /\ \A i \in 1..Len(chunk_ret) : Len(chunk_ret[i]) <= max_chars

\* a finished run with several chunks, one of them of the full length, cut
\* by a hard split
C1_Witness ==
    /\ cpc = "done"
    /\ Len(chunk_ret) >= 2
    /\ max_chars >= 2
    /\ Len(chunk_ret[1]) = max_chars
    /\ \A i \in 1..Len(text) : ~IsSpace(text[i])

AllSpace(t, a, b) == \A i \in a..b : IsSpace(t[i])

\* cs are, in order, disjoint contiguous pieces of t starting at 1-based
\* position from or later, and every character of t from that position on
\* that lies in none of them is whitespace
RECURSIVE Embeds(_, _, _)
Embeds(cs, t, from) ==
    IF cs = <<>> THEN AllSpace(t, from, Len(t))
    ELSE \E p \in from..(Len(t) - Len(Head(cs)) + 1) :
            /\ AllSpace(t, from, p - 1)
            /\ SubSeq(t, p, p + Len(Head(cs)) - 1) = Head(cs)
            /\ Embeds(Tail(cs), t, p + Len(Head(cs)))

\* C2: the returned chunks are, in list order, non-overlapping contiguous
\* substrings of text in document order, and every character of text outside
\* all chunks is whitespace; while the loop runs the same holds of the chunks
\* collected so far and the consumed prefix of text.
C2_ChunksEmbedInText ==
    /\ cpc = "done" => Embeds(chunk_ret, text, 1)
    /\ cpc = "loop" => Embeds(chunks, Slice(text, 0, current_pos), 1)

\* a finished run that returned two chunks and dropped whitespace between them
C2_Witness ==
    /\ cpc = "done"
    /\ Len(chunk_ret) >= 2
    /\ Len(Concat(chunk_ret)) < Len(text)
    /\ \E i \in 2..(Len(text) - 1) : IsSpace(text[i])

\* C13: for every text and every positive max_chars, chunk_text never
\* collects or returns an empty chunk, and it returns the empty sequence for
\* a text that is empty or whitespace only
C13_NoEmptyChunk ==
    /\ \A i \in 1..Len(chunks) : chunks[i] # <<>>
    /\ \A i \in 1..Len(chunk_ret) : chunk_ret[i] # <<>>
    /\ (cpc = "done" /\ Strip(text) = <<>>) => chunk_ret = <<>>

\* a finished run that returned chunks, one of whose iterations cut a piece
\* of whitespace only and collected nothing
C13_Witness ==
    /\ cpc = "done"
    /\ Len(chunk_ret) >= 1
    /\ iters > Len(chunk_ret)
    /\ \A i \in 1..Len(chunk_ret) : chunk_ret[i] # <<>>

\* C23: chunk_text terminates for every text and every positive max_chars:
\* an iteration that does not leave the loop increases current_pos by at
\* least one, the iterations are never more than the characters of text, and
\* the function returns
C23_Terminates ==
    /\ [][(cpc = "loop" /\ cpc' = "loop") => current_pos' >= current_pos + 1]_vars
    /\ [](iters <= Len(text))
    /\ <>(cpc = "done")

\* a run on a text of the greatest length that took as many iterations as
\* the text has characters and returned
C23_Witness ==
    /\ cpc = "done"
    /\ Len(text) = MaxTextLen
    /\ iters = Len(text)
    /\ current_pos = Len(text) - 1

\* the 0-based positions of ch among the next n characters from pos on
InWindow(t, ch, pos, n) ==
    {i \in pos..(pos + n - 1) : i < Len(t) /\ t[i + 1] = ch}

\* the last newline of the window, else its last space, else its last
\* character
SplitPoint(t, pos, n) ==
    IF InWindow(t, "\n", pos, n) # {} THEN SetMax(InWindow(t, "\n", pos, n))
    ELSE IF InWindow(t, " ", pos, n) # {} THEN SetMax(InWindow(t, " ", pos, n))
    ELSE pos + n - 1

\* C24: when more than max_chars characters are unconsumed, the iteration
\* resumes just after the last newline among the next max_chars characters,
\* else just after the last space among them, else after exactly max_chars
\* characters; the split point never lies before current_pos
C24_SplitsAtLastBoundary ==
    [][(cpc = "loop" /\ Len(text) - current_pos > max_chars) =>
          /\ cpc' = "loop"
          /\ current_pos' = SplitPoint(text, current_pos, max_chars) + 1
          /\ current_pos' - 1 \in current_pos..(current_pos + max_chars - 1)]_vars

\* the first iteration split after a newline although a space follows it in
\* the window
C24_Witness ==
    /\ cpc = "loop"
    /\ iters = 1
    /\ max_chars = 3
    /\ Len(text) > 3
    /\ text[2] = "\n"
    /\ text[3] = " "
    /\ current_pos = 2

----------------------------------------------------------------------------
(* Claims about merge_json_fragments *)

\* the fragments that parse as a JSON object
ObjFrags == {i \in 1..Len(json_fragments) :
                Loads(json_fragments[i]).ok /\ Loads(json_fragments[i]).node.t = "object"}
FragMembers(i) == Loads(json_fragments[i]).node.items
Defining(key) == {i \in ObjFrags : DictHas(FragMembers(i), key)}

RECURSIVE FoldObjects(_, _)
FoldObjects(fs, acc) ==
    IF fs = <<>> THEN acc
    ELSE LET r == Loads(Head(fs))
         IN  FoldObjects(Tail(fs),
                         IF r.ok /\ r.node.t = "object"
                         THEN DictUpdate(acc, r.node.items) ELSE acc)

C12_EmptyAndSingleUnchanged ==
    /\ Len(json_fragments) <= 1 => mpc \in {"start", "done"}
    /\ (mpc = "done" /\ json_fragments = <<>>) => merge_ret = <<>>
    /\ (mpc = "done" /\ Len(json_fragments) = 1) => merge_ret = json_fragments[1]

\* a single fragment that is JSON, but not in the layout dumps writes, was
\* returned
C12_Witness ==
    /\ mpc = "done"
    /\ Len(json_fragments) = 1
    /\ Loads(json_fragments[1]).ok
    /\ Dumps(Loads(json_fragments[1]).node) # json_fragments[1]
    /\ merge_ret = json_fragments[1]

----------------------------------------------------------------------------
(* Claims about robust_read_csv *)

\* a text of plain cells, commas and line breaks only, with a header line
C6_PlainText ==
    /\ Strip(csv_text) # <<>>
    /\ \A j \in 1..Len(csv_text) : csv_text[j] \notin {";", BadQuoteCell}

\* the rows of the text by its lines and commas, blank lines left out
C6_Rows == NonBlank(ReadRows(SplitLines(Strip(csv_text)), ","))

\* C6: for a CSV text with a non-empty header the table returned is the
\* header with every data row of the text, in order, none rejected for its
\* width: a wider row has its cells from the last header index onward joined
\* into the last column, a narrower row is right-padded with empty strings
\* (so "a,b\n1,2,3\n4" gives header [a,b] and rows [1,"2,3"], [4,""])
C6_EveryRowRepaired ==
    (csv_pc = "done" /\ has_header /\ C6_PlainText) =>
        /\ df.columns = C6_Rows[1]
        /\ df.rows = [i \in 1..(Len(C6_Rows) - 1) |->
                         FixRow(C6_Rows[i + 1], Len(C6_Rows[1]))]
        /\ \A i \in 1..Len(df.index) : df.index[i] = <<>>

\* C11: robust_read_csv never raises and always returns, for every text and
\* either value of has_header; for the empty or whitespace-only text the
\* table returned is empty
C11_NeverRaisesBlankEmpty ==
    /\ csv_pc # "raised"
    /\ csv_pc = "start" =>
          \A swallow \in BOOLEAN :
              ~RobustReadCsv(csv_text, has_header, swallow).raised
    /\ (csv_pc = "done" /\ Strip(csv_text) = <<>>) => FrameEmpty(df)

\* a text of line breaks only was read, without header, to an empty table
C11_Witness ==
    /\ csv_pc = "done"
    /\ csv_text # <<>>
    /\ Strip(csv_text) = <<>>
    /\ ~has_header
    /\ FrameEmpty(df)

----------------------------------------------------------------------------
(* Claims about parse_tables_from_csv *)

\* the lines of the response text
TabLines == SplitLines(csv_response_text)

\* the index in the text of the first token of line k
RECURSIVE LineStart(_, _)
LineStart(ls, k) == IF k = 1 THEN 1 ELSE LineStart(ls, k - 1) + Len(ls[k - 1]) + 1

\* the line is a start marker, "=== START OF TABLE: <name> ==="
IsStartLine(l) == Len(l) >= 2 /\ l[1] = StartLit /\ l[Len(l)] = CloseLit

\* the name a start marker line carries
StartLineName(l) == SubSeq(l, 2, Len(l) - 1)

\* the line is the end marker for the name
IsEndLine(l, name) == l = <<EndLit>> \o name \o <<CloseLit>>

\* the line begins with the end marker for the name
BeginsWithEnd(l, name) ==
    /\ Len(l) >= Len(name) + 2
    /\ SubSeq(l, 1, Len(name) + 2) = <<EndLit>> \o name \o <<CloseLit>>

\* the end marker lines for the name below line i
EndLinesBelow(i, name) ==
    {j \in (i + 1)..Len(TabLines) : IsEndLine(TabLines[j], name)}

\* the lines beginning with the end marker for the name, two or more lines
\* below line i
EndsApartBelow(i, name) ==
    {j \in (i + 2)..Len(TabLines) : BeginsWithEnd(TabLines[j], name)}

\* a match pairs the start marker on line i with the end marker on line j
\* and has the lines between them as group 2
Pairs(i, name, j) ==
    \E k \in 1..Len(matches) :
        /\ matches[k].from = LineStart(TabLines, i)
        /\ matches[k].name = name
        /\ matches[k].to = LineStart(TabLines, j) + Len(name) + 1
        /\ matches[k].csv = JoinLines(SubSeq(TabLines, i + 1, j - 1))

\* the token at index p lies inside a match that begins before it
InsideEarlierMatch(p) ==
    \E k \in 1..Len(matches) : matches[k].from < p /\ p <= matches[k].to

\* C7 as stated: every start marker line followed later by an end marker
\* line of the identical name is paired with the nearest such line, and the
\* raw CSV is exactly the text between the two lines
C7_PairsNearestEnd ==
    tab_pc = "done" =>
        \A i \in 1..Len(TabLines) :
            (/\ IsStartLine(TabLines[i])
             /\ EndLinesBelow(i, StartLineName(TabLines[i])) # {})
            => Pairs(i, StartLineName(TabLines[i]),
                     SetMin(EndLinesBelow(i, StartLineName(TabLines[i]))))

\* C7: every start marker line that is not inside an earlier matched block
\* and is followed, two or more lines below, by a line beginning with the
\* end marker of the identical name is paired with the nearest such line,
\* and the raw CSV is exactly the text between the two lines; no match ends
\* on the line directly below its start marker
C7_PairsNearestEndApart ==
    tab_pc = "done" =>
        /\ \A i \in 1..Len(TabLines) :
              (/\ IsStartLine(TabLines[i])
               /\ ~InsideEarlierMatch(LineStart(TabLines, i))
               /\ EndsApartBelow(i, StartLineName(TabLines[i])) # {})
              => Pairs(i, StartLineName(TabLines[i]),
                       SetMin(EndsApartBelow(i, StartLineName(TabLines[i]))))
        /\ \A k \in 1..Len(matches) :
              \E i \in 1..Len(TabLines) :
                  /\ matches[k].from = LineStart(TabLines, i)
                  /\ \E j \in (i + 2)..Len(TabLines) :
                        Pairs(i, matches[k].name, j)

\* a start marker whose next line is an end marker of its name is paired
\* with a later end marker, and a second block is matched after it
C7_Witness ==
    /\ tab_pc = "done"
    /\ Len(matches) = 2
    /\ IsStartLine(TabLines[1])
    /\ BeginsWithEnd(TabLines[2], StartLineName(TabLines[1]))
    /\ matches[1].from = 1
    /\ matches[1].csv # <<>>

\* the name between the start literal at index p and the next " ==="
NameAfter(t, p) ==
    SubSeq(t, p + 1, SetMin({e \in (p + 1)..Len(t) : t[e] = CloseLit}) - 1)

\* the name between the last end literal before index p and index p
NameBefore(t, p) ==
    SubSeq(t, SetMax({q \in 1..p : t[q] = EndLit}) + 1, p - 1)

\* the only markers of the text are starts for T1 and ends for T2, and an
\* end follows a start two or more lines below
OnlyStartT1EndT2 ==
    /\ \A p \in 1..Len(csv_response_text) :
          /\ csv_response_text[p] = StartLit
                => NameAfter(csv_response_text, p) = <<"T1">>
          /\ csv_response_text[p] = EndLit
                => /\ p + 2 <= Len(csv_response_text)
                   /\ csv_response_text[p + 1] = "T2"
                   /\ csv_response_text[p + 2] = CloseLit
    /\ \E i \in 1..Len(TabLines) :
          /\ IsStartLine(TabLines[i])
          /\ \E j \in (i + 2)..Len(TabLines) : IsEndLine(TabLines[j], <<"T2">>)

\* C8: the end marker a match closes with carries the very name of its
\* start marker, letter case included; a text whose only markers are a
\* start for T1 and an end for T2 yields an empty mapping
C8_NeverPairsDifferentNames ==
    /\ \A k \in 1..Len(matches) :
          NameAfter(csv_response_text, matches[k].from)
              = NameBefore(csv_response_text, matches[k].to)
    /\ (tab_pc = "done" /\ OnlyStartT1EndT2) => tab_ret = <<>>

\* a start for T1 with an end for T2 below it, and nothing extracted
C8_Witness ==
    /\ tab_pc = "done"
    /\ OnlyStartT1EndT2
    /\ tab_ret = <<>>

----------------------------------------------------------------------------
(* Claims about a generation request *)

\* the call of index i in the history of the run failed
FailedCall(i) == i \in 1..Len(calls) /\ calls[i].status = "failed"

\* C9: when the LLM call for a chunk fails the run is aborted: that call is
\* the last one of the run, the run has ended by st.stop, nothing was handed
\* to merge_json_fragments, the collected responses are gone, and
\* generated_json_data is None after the run
C9_FailedCallAbortsRun ==
    \A i \in 1..Len(calls) :
        FailedCall(i) =>
            /\ i = Len(calls)
            /\ app_pc = "idle"
            /\ run_end = "stopped"
            /\ merge_arg = NoMerge
            /\ all_responses = <<>>
            /\ generated_json_data = SsNone

\* the call for the second of three chunks failed after the first returned
C9_Witness ==
    /\ Len(calls) = 2
    /\ calls[1].status = "ok"
    /\ FailedCall(2)
    /\ calls[2].of = 3
    /\ app_pc = "idle"

\* the responses of the calls of the history, in the order of the calls
CallResponses == [i \in 1..Len(calls) |-> calls[i].resp]

\* C10: the i-th call of a run is the call for the i-th chunk (document
\* order, each chunk at most once, no retry); a call is issued only when
\* every earlier call has returned; the list handed to merge_json_fragments
\* holds the responses of the calls in the order of their chunks
C10_CallsSequentialInOrder ==
    /\ \A i \in 1..Len(calls) :
          /\ calls[i].chunk = i
          /\ i <= calls[i].of
          /\ i < Len(calls) => calls[i].status = "ok"
          /\ app_pc # "idle" => calls[i].text = text_chunks[i]
    /\ (Len(calls) > 0 /\ calls[Len(calls)].status = "pending") <=> app_pc = "line97"
    /\ merge_arg.called =>
          /\ merge_arg.frags = CallResponses
          /\ Len(calls) > 0
          /\ Len(calls) = calls[1].of
          /\ \A i \in 1..Len(calls) : calls[i].status = "ok"

\* three chunks were called for and their responses, not all the same, were
\* handed to merge_json_fragments
C10_Witness ==
    /\ merge_arg.called
    /\ Len(merge_arg.frags) = 3
    /\ merge_arg.frags[1] # merge_arg.frags[2]
    /\ merge_arg.frags[2] # merge_arg.frags[3]

----------------------------------------------------------------------------
(* Claims about the CSV-production step *)

\* C14: when the text the CSV call returned holds no matching pair of table
\* markers, the error and that very text are on the page, the step makes no
\* further call in the run, no mapping (the empty one included) is stored in
\* csv_tables_generated, and no table is offered for download
C14_NoMarkersIsFailure ==
    /\ csv_tables_generated # SsValue(<<>>)
    /\ (csv_output_text.st = "value" /\ FindAll(csv_output_text.v, 1) = <<>>) =>
          /\ screen.csv_error
          /\ screen.coded
          /\ screen.code = csv_output_text.v
          /\ screen.downloads = <<>>
          /\ ~Truthy(csv_tables_generated)
          /\ app_pc \in {"line268", "idle"}
          /\ run_end \in {"", "completed"}

\* a run whose CSV call returned text without markers has ended
C14_Witness ==
    /\ app_pc = "idle"
    /\ run_end = "completed"
    /\ csv_output_text.st = "value"
    /\ FindAll(csv_output_text.v, 1) = <<>>
    /\ screen.csv_error
    /\ screen.code = csv_output_text.v
    /\ Truthy(generated_json_data)

----------------------------------------------------------------------------
(* Claims about a fragment that does not parse *)

\* the fragments handed to merge_json_fragments that json.loads rejects
BadFrags == {i \in 1..Len(merge_arg.frags) : ~Loads(merge_arg.frags[i]).ok}

\* C15 as stated: a run whose calls all returned and one of whose fragments
\* does not parse is not aborted: it ends with a result stored, the document
\* folded from the fragments that parse
C15_BadFragmentNeverAborts ==
    (app_pc = "idle" /\ merge_arg.called /\ BadFrags # {}) =>
        /\ run_end = "completed"
        /\ generated_json_data =
              SsValue(Dumps(ObjectOf(FoldObjects(merge_arg.frags, <<>>))))

\* the runs C15 is about that do end with a stored result: two or more
\* fragments, one of which does not parse, the others folding to a document
\* OutputModel accepts
C15_Witness ==
    /\ app_pc = "idle"
    /\ merge_arg.called
    /\ BadFrags # {}
    /\ run_end = "completed"
    /\ generated_json_data =
          SsValue(Dumps(ObjectOf(FoldObjects(merge_arg.frags, <<>>))))

----------------------------------------------------------------------------
(* Claims about the cached results *)

\* the cached entries that hold a value computed from a file other than f
StaleFor(f) ==
    {e \in {"pages", "json", "csv"} : origin[e] # 0 /\ origin[e] # f}

\* C16 as stated: once a run has passed the upload check with a file in the
\* uploader, no cached page text, merged document or table mapping computed
\* from another file is held; and once the button handler has started, the
\* merged document and the tables held are None or computed in this run
C16_DiscardedOnUploadOrRetrigger ==
    /\ (uploaded_file # 0 /\ app_pc # "line92") => StaleFor(uploaded_file) = {}
    /\ (button /\ app_pc \in {"line81", "line97", "line215"}) =>
          generated_json_data = SsNone /\ csv_tables_generated = SsNone
    /\ (button /\ app_pc \in {"line240", "line153", "line268"}) =>
          /\ generated_json_data = SsValue(PrettyJson(json_output_text))
          /\ Truthy(csv_tables_generated) => csv_output_text.st = "value"

----------------------------------------------------------------------------
(* Claims about the API key *)

\* no key typed and none in the environment, or configure_api returned False
NoUsableKey ==
    \/ key_cfg.input = "" /\ key_cfg.env = EnvUnset
    \/ ChosenKey(key_cfg.input, key_cfg.env) # "" /\ ~key_cfg.configured

\* C17: in a run without a usable API key google_api_key is not set; a run
\* in which it is not set attempts neither the PDF extraction nor any LLM
\* call, and with a PDF in the uploader it ends stopped at the key check with
\* the error on the page
C17_NoKeyNoCall ==
    /\ NoUsableKey => ~google_api_key
    /\ ~google_api_key =>
          /\ ~did.extract
          /\ ~did.llm
          /\ calls = <<>>
          /\ app_pc \in {"idle", "line92", "line105"}
    /\ (~google_api_key /\ app_pc = "idle" /\ run_end # "" /\ uploaded_file # 0) =>
          run_end = "stopped" /\ screen.key_error

\* a run with a PDF and a typed key that configure_api refused has stopped
\* with the error, the PDF not extracted
C17_Witness ==
    /\ app_pc = "idle"
    /\ run_end = "stopped"
    /\ screen.key_error
    /\ key_cfg.input = "k"
    /\ ~key_cfg.configured
    /\ uploaded_file # 0
    /\ pages_text = SsAbsent
    /\ ~did.extract /\ ~did.llm

----------------------------------------------------------------------------
(* Claims about the prompts *)

\* the piece lit occurs in p
HasPiece(p, lit) == \E j \in 1..Len(p) : p[j] = lit

\* the piece lab occurs in p and the text field follows it
HasSection(p, lab, field) ==
    \E j \in 1..Len(p) :
        /\ p[j] = lab
        /\ j + Len(field) <= Len(p)
        /\ SubSeq(p, j + 1, j + Len(field)) = field

\* the section of the field is in p if the field is not empty, and is left
\* out, label included, if it is empty
SectionIffNonEmpty(p, lab, field) ==
    IF field = <<>> THEN ~HasPiece(p, lab) ELSE HasSection(p, lab, field)

\* C18 as stated: every prompt built holds the labeled section of each
\* context field that is not empty and holds nothing, not even the label,
\* of a context field that is empty
C18_EmptySectionsOmitted ==
    \A i \in 1..Len(prompts) :
        /\ SectionIffNonEmpty(prompts[i], ContextLabel, context_text)
        /\ SectionIffNonEmpty(prompts[i], RelationshipsLabel, relationships_text)
        /\ SectionIffNonEmpty(prompts[i], AdditionalLabel, additional_context_text)
        /\ SectionIffNonEmpty(prompts[i], ManualLabel, manual_context_text)

\* the indices of p that hold the piece lit
PieceAt(p, lit) == {j \in 1..Len(p) : p[j] = lit}

\* p ends with the section of the chunk c, holds no other chunk section,
\* and all of task, schema, context sections and the n examples lie before it
ChunkLast(p, c, n) ==
    /\ Len(p) >= Len(c) + 2
    /\ SubSeq(p, Len(p) - Len(c) - 1, Len(p))
           = <<ChunkOpenLit>> \o c \o <<ChunkCloseLit>>
    /\ PieceAt(p, ChunkOpenLit) = {Len(p) - Len(c) - 1}
    /\ \A lit \in {TaskLit, SchemaLit, ContextLabel, RelationshipsLabel,
                   AdditionalLabel, ManualLabel} :
           \E j \in PieceAt(p, lit) : j < Len(p) - Len(c) - 1
    /\ Cardinality({j \in PieceAt(p, ExampleStartLit) : j < Len(p) - Len(c) - 1}) = n
    /\ Cardinality(PieceAt(p, ExampleEndLit)) = n

\* C19: generate_structured_json builds one prompt per chunk, in chunk order;
\* the i-th prompt ends with the section of the i-th chunk (the chunk text
\* between its fences), holds no second chunk section, and holds the task
\* instruction, the schema, the context sections and every rendered example
\* before it
C19_OneChunkPerPromptLast ==
    pages_arg # <<>> =>
        /\ Len(prompts) <= Len(prompt_chunks)
        /\ prompt_pc = "loop" => Len(prompts) = prompt_idx - 1
        /\ prompt_pc = "done" => Len(prompts) = Len(prompt_chunks)
        /\ \A i \in 1..Len(prompts) :
               /\ ChunkLast(prompts[i], prompt_chunks[i], Len(examples))
               /\ Len(prompts[i]) = Len(example_prompt) + Len(prompt_chunks[i]) + 9
                      + Len(ContextSections(context_text, relationships_text,
                                            additional_context_text,
                                            manual_context_text))

\* three prompts were built for three different chunks, with two examples
C19_Witness ==
    /\ prompt_pc = "done"
    /\ Len(prompts) = 3
    /\ Len(examples) = 2
    /\ prompt_chunks[1] # prompt_chunks[2]
    /\ prompt_chunks[2] # prompt_chunks[3]
    /\ ChunkLast(prompts[3], prompt_chunks[3], 2)

----------------------------------------------------------------------------
(* Claims about running the pipeline twice *)

----------------------------------------------------------------------------
(* Claims about handle_api_error *)

\* the messages of a kind whose text holds the given text
Shown(kind, t) ==
    {j \in 1..Len(err_shown) :
        err_shown[j].kind = kind /\ Contains(err_shown[j].text, t)}

\* C21: whatever the exception and the step name, handle_api_error shows
\* first an error naming the step, then an error holding the text of the
\* exception, then stops the run; the reinstall warning is shown exactly when
\* the text of the exception contains "Illegal header value", and nothing
\* else is shown
C21_ReportsThenStops ==
    err_pc \notin {"idle", "call"} =>
        /\ err_pc = "stopped"
        /\ 1 \in Shown("error", <<ErrDuringLit>> \o err_step)
        /\ 2 \in Shown("error", <<ErrDetailsLit>> \o StrOfException(err_e))
        /\ Shown("warning", <<ReinstallLit>>) # {}
              <=> Contains(StrOfException(err_e), IllegalHeaderValue)
        /\ Len(err_shown) =
              IF Contains(StrOfException(err_e), IllegalHeaderValue)
              THEN 3 ELSE 2

\* the handler has stopped the run for an exception whose text holds
\* "Illegal header value" after other characters, and shown the warning
C21_Witness ==
    /\ err_pc = "stopped"
    /\ Len(err_e) = 1
    /\ Contains(err_e[1], IllegalHeaderValue)
    /\ SubSeq(err_e[1], 1, Len(IllegalHeaderValue)) # IllegalHeaderValue
    /\ err_step = <<"CSV generation">>
    /\ Shown("warning", <<ReinstallLit>>) = {3}

----------------------------------------------------------------------------
(* Claims about OutputModel *)

\* the member of an object node, Nil when the node is no object or lacks it
MemberOf(n, key) ==
    IF n.t = "object" /\ DictHas(n.items, key) THEN DictGet(n.items, key)
    ELSE Nil

\* the elements of an array node, none when the node is no array
ElementsOf(n) == IF n.t = "array" THEN n.items ELSE <<>>

\* the keys of an object node
KeysOf(n) == IF n.t = "object" THEN DictKeys(n.items) ELSE {}

\* the document has an entities list in which every entity has id, type and
\* name
HasEntitiesWithRequired(n) ==
    /\ MemberOf(n, "\"entities\"").t = "array"
    /\ \A i \in 1..Len(ElementsOf(MemberOf(n, "\"entities\""))) :
          {"\"id\"", "\"type\"", "\"name\""}
              \subseteq KeysOf(MemberOf(n, "\"entities\"").items[i])

\* the document has a field no model declares: at the top level, in an
\* entity, in the relations of an entity, or in a relationship
HasUnknownField(n) ==
    \/ ~(KeysOf(n) \subseteq {"\"entities\"", "\"relationships\""})
    \/ \E i \in 1..Len(ElementsOf(MemberOf(n, "\"entities\""))) :
          \/ ~(KeysOf(MemberOf(n, "\"entities\"").items[i])
                 \subseteq {"\"id\"", "\"type\"", "\"name\"", "\"attributes\"",
                            "\"relations\""})
          \/ ~(KeysOf(MemberOf(MemberOf(n, "\"entities\"").items[i],
                               "\"relations\""))
                 \subseteq {"\"parent\"", "\"children\"", "\"missing\""})
    \/ \E i \in 1..Len(ElementsOf(MemberOf(n, "\"relationships\""))) :
          ~(KeysOf(MemberOf(n, "\"relationships\"").items[i])
              \subseteq {"\"source\"", "\"target\"", "\"type\"", "\"properties\""})

\* C22: a document that OutputModel accepts is JSON, has an entities list in
\* which every entity has id, type and name, and has no unknown field at the
\* top level, in an entity, in an entity's relations or in a relationship
C22_AcceptsOnlyClosedDocuments ==
    val_verdict = "accepted" =>
        /\ Loads(val_doc).ok
        /\ HasEntitiesWithRequired(Loads(val_doc).node)
        /\ ~HasUnknownField(Loads(val_doc).node)

\* a document with two entities, one with relations, and a relationship with
\* properties was accepted
C22_Witness ==
    /\ val_verdict = "accepted"
    /\ Len(ElementsOf(MemberOf(Loads(val_doc).node, "\"entities\""))) = 2
    /\ \E i \in 1..2 :
          KeysOf(MemberOf(MemberOf(Loads(val_doc).node, "\"entities\"").items[i],
                          "\"relations\"")) # {}
    /\ \E i \in 1..Len(ElementsOf(MemberOf(Loads(val_doc).node,
                                           "\"relationships\""))) :
          "\"properties\""
              \in KeysOf(MemberOf(Loads(val_doc).node, "\"relationships\"").items[i])

----------------------------------------------------------------------------
(* Claims about the stored JSON *)

\* the text is JSON and satisfies OutputModel
PassesOutputModel(t) == Loads(t).ok /\ ValidOutputNode(Loads(t).node)

\* the merged text of this run, when merge_json_fragments returned one that
\* fails validation
MergedInvalid ==
    /\ merge_arg.called
    /\ ~MergeJsonFragments(merge_arg.frags).raised
    /\ ~PassesOutputModel(MergeJsonFragments(merge_arg.frags).text)

\* C25: generated_json_data is absent, None, or a JSON text that satisfies
\* OutputModel, and so are the JSON shown on the page and the JSON handed to
\* the CSV call; a merged text that fails validation stops the run with
\* generated_json_data left None, nothing shown and no CSV call
C25_StoredJsonIsValid ==
    /\ generated_json_data.st = "value" =>
          PassesOutputModel(generated_json_data.v)
    /\ screen.json # <<>> => PassesOutputModel(screen.json)
    /\ did.csv_json # <<>> => PassesOutputModel(did.csv_json)
    /\ MergedInvalid =>
          /\ app_pc = "line215" \/ (app_pc = "idle" /\ run_end = "stopped")
          /\ generated_json_data = SsNone
          /\ screen.json = <<>>
          /\ did.csv_json = <<>>

\* a run merged three fragments, each valid JSON, into a text that fails
\* validation, and was stopped
C25_Witness ==
    /\ MergedInvalid
    /\ Len(merge_arg.frags) = 3
    /\ \A i \in 1..3 : Loads(merge_arg.frags[i]).ok
    /\ PassesOutputModel(merge_arg.frags[1])
    /\ app_pc = "idle"
    /\ run_end = "stopped"
    /\ generated_json_data = SsNone

----------------------------------------------------------------------------
(* Claims about when the CSV call is issued *)

\* JSON is stored and not empty, and no table mapping is stored or the
\* stored one is None or empty
JsonWithoutTables ==
    /\ generated_json_data.st = "value"
    /\ generated_json_data.v # <<>>
    /\ csv_tables_generated.st = "value" => csv_tables_generated.v = <<>>

\* a script run has ended in which the button was not clicked
RunEndedUntriggered == app_pc = "idle" /\ run_end # "" /\ ~button

\* C26: a script run that reaches the CSV step (main.py line 240) issues the
\* JSON-to-CSV call exactly when generated_json_data is set and not empty and
\* csv_tables_generated is unset, None or empty; the call is never issued
\* before a JSON generation has succeeded, and a run with a PDF in the
\* uploader and without a click on the button that runs to its end with JSON
\* stored and no table stored has issued the call again
C26_CsvCallWhenDue ==
    /\ [][app_pc = "line240" =>
             (app_pc' = "line153" <=> JsonWithoutTables)]_vars
    /\ [](did.csv_json # <<>> =>
             /\ origin.json # 0
             /\ did.csv_json = generated_json_data.v)
    /\ []((/\ RunEndedUntriggered
            /\ run_end = "completed"
            /\ uploaded_pdf # ""
            /\ JsonWithoutTables)
             => (did.csv_json # <<>> /\ screen.csv_error))

\* a run without a click on the button, following a generation, issued the
\* CSV call again, found no table marker again and ran to its end
C26_Witness ==
    /\ RunEndedUntriggered
    /\ run_end = "completed"
    /\ uploaded_pdf # ""
    /\ JsonWithoutTables
    /\ did.csv_json # <<>>
    /\ screen.csv_error
    /\ merge_arg = NoMerge

\* C26 as stated: every script run without a click on the button that ends
\* with JSON stored and no table stored has issued the CSV call
C26_ReissuedOnEveryRun ==
    (RunEndedUntriggered /\ JsonWithoutTables) => did.csv_json # <<>>

----------------------------------------------------------------------------
(* Claims about page text without chunks *)

\* every page is empty or whitespace only
AllPagesBlank(pages) ==
    \A i \in 1..Len(pages) : \A j \in 1..Len(pages[i]) : IsSpace(pages[i][j])

\* C27: when every page is empty or whitespace only, a run that calls
\* generate_structured_json makes no JSON call and does not call
\* merge_json_fragments; it reports that no JSON was generated and stops, and
\* generated_json_data stays None
C27_NoChunksNoCall ==
    (did.generate /\ AllPagesBlank(pages_text.v)) =>
        /\ calls = <<>>
        /\ merge_arg = NoMerge
        /\ generated_json_data = SsNone
        /\ did.csv_json = <<>>
        /\ \/ app_pc = "line81" /\ text_chunks = <<>>
           \/ app_pc = "idle" /\ run_end = "stopped" /\ screen.no_json

\* a run on an empty and a blank page called generate_structured_json and
\* was stopped with the report
C27_Witness ==
    /\ did.generate
    /\ Len(pages_text.v) = 2
    /\ AllPagesBlank(pages_text.v)
    /\ app_pc = "idle"
    /\ run_end = "stopped"
    /\ screen.no_json
    /\ generated_json_data = SsNone

----------------------------------------------------------------------------
(* Claims about the keys of the table mapping *)

\* key is name without the whitespace at its two ends
IsTrimOf(key, name) ==
    /\ key = <<>> \/ (~IsSpace(key[1]) /\ ~IsSpace(key[Len(key)]))
    /\ \E a \in 0..Len(name) : \E b \in 0..(Len(name) - a) :
          /\ \A i \in 1..a : IsSpace(name[i])
          /\ \A i \in (Len(name) - b + 1)..Len(name) : IsSpace(name[i])
          /\ key = SubSeq(name, a + 1, Len(name) - b)

\* the matched blocks whose trimmed name is key
BlocksOf(key) == {k \in 1..Len(matches) : IsTrimOf(key, matches[k].name)}

\* the frames robust_read_csv can return for a block body
FramesOf(csv) == {RobustReadCsv(csv, TRUE, sw).df : sw \in BOOLEAN}

\* C28: the mapping parse_tables_from_csv returns has exactly one entry per
\* trimmed name of a matched block, the entry carries the table of the last
\* block of that trimmed name, and the mapping has no more entries than
\* there are matched blocks
C28_KeyedByTrimmedNameLastWins ==
    tab_pc = "done" =>
        /\ \A k \in 1..Len(matches) :
              \E i \in 1..Len(tab_ret) : IsTrimOf(tab_ret[i][1], matches[k].name)
        /\ \A i \in 1..Len(tab_ret) :
              /\ BlocksOf(tab_ret[i][1]) # {}
              /\ tab_ret[i][2] \in
                     FramesOf(matches[SetMax(BlocksOf(tab_ret[i][1]))].csv)
              /\ \A j \in 1..Len(tab_ret) :
                    tab_ret[j][1] = tab_ret[i][1] => j = i
        /\ Len(tab_ret) <= Len(matches)

\* two blocks were matched whose names differ by a trailing space only: the
\* mapping returned has the one entry, with the table of the second block,
\* which is not a table of the first
C28_Witness ==
    /\ tab_pc = "done"
    /\ Len(matches) = 2
    /\ matches[1].name # matches[2].name
    /\ Len(tab_ret) = 1
    /\ IsTrimOf(tab_ret[1][1], matches[1].name)
    /\ IsTrimOf(tab_ret[1][1], matches[2].name)
    /\ tab_ret[1][2] \in FramesOf(matches[2].csv)
    /\ tab_ret[1][2] \notin FramesOf(matches[1].csv)

----------------------------------------------------------------------------
(* Claims about blocks with an empty table *)

\* the mapping has an entry for the k-th matched block
HasEntryFor(tbl, k) ==
    \E i \in 1..Len(tbl) : IsTrimOf(tbl[i][1], matches[k].name)

\* C29: every matched marker pair the loop has gone through has an entry in
\* the mapping, also when its body parsed to an empty table, and the mapping
\* parse_tables_from_csv returns is empty exactly when no pair matched
C29_EmptyIffNoMatch ==
    /\ tab_pc = "loop" => \A k \in 1..(match_i - 1) : HasEntryFor(tables, k)
    /\ tab_pc = "done" =>
          /\ \A k \in 1..Len(matches) : HasEntryFor(tab_ret, k)
          /\ (tab_ret = <<>>) <=> (matches = <<>>)

\* the one pair matched has a blank body: the mapping returned has its
\* entry, with an empty table
C29_Witness ==
    /\ tab_pc = "done"
    /\ Len(matches) = 1
    /\ \A f \in FramesOf(matches[1].csv) : FrameEmpty(f)
    /\ Len(tab_ret) = 1
    /\ FrameEmpty(tab_ret[1][2])

----------------------------------------------------------------------------
(* Claims about the fallback path of robust_read_csv *)

\* the rows the fallback tokenizes: the lines of the stripped text cut at
\* the delimiter found in the first line
C30_AllRows ==
    ReadRows(SplitLines(Strip(csv_text)), Sniff(SplitLines(Strip(csv_text))[1]))

\* the data rows: all rows but the header row
C30_DataRows == IF has_header THEN Tail(C30_AllRows) ELSE C30_AllRows

\* the positions of the data rows that hold a cell
C30_Kept == {k \in 1..Len(C30_DataRows) : C30_DataRows[k] # <<>>}

\* the position of the i-th data row that holds a cell
C30_Nth(i) == CHOOSE k \in C30_Kept : Cardinality({j \in C30_Kept : j <= k}) = i

\* the row of the result repairs the tokenized row to n cells: cells before
\* the last column are kept, the surplus of a too-wide row is joined with
\* commas in the last column, a too-narrow row is filled with empty strings
C30_Repairs(out, row, n) ==
    /\ Len(out) = n
    /\ \A j \in 1..n :
          out[j] = IF j > Len(row) THEN <<>>
                   ELSE IF j = n /\ Len(row) > n
                        THEN JoinWith(SubSeq(row, n, Len(row)), ",")
                   ELSE row[j]

\* C30: on the fallback path the result has one row per tokenized data row
\* that holds a cell, in the order of the text: rows without cells are
\* dropped, and the surplus cells of a too-wide row are joined with a comma
\* whichever delimiter was sniffed
C30_FallbackKeepsNonEmptyRows ==
    (csv_pc = "done" /\ csv_path = "fallback") =>
        /\ Len(df.rows) = Cardinality(C30_Kept)
        /\ \A i \in 1..Len(df.rows) :
              C30_Repairs(df.rows[i], C30_DataRows[C30_Nth(i)], Len(df.columns))

\* the fallback read a text whose first line holds semicolons: a blank data
\* row was dropped, and the row after it, wider than the header, has its
\* surplus cells joined with a comma
C30_Witness ==
    /\ csv_pc = "done"
    /\ csv_path = "fallback"
    /\ has_header
    /\ Sniff(SplitLines(Strip(csv_text))[1]) = ";"
    /\ Len(C30_DataRows) = 2
    /\ C30_DataRows[1] = <<>>
    /\ Len(C30_DataRows[2]) = 3
    /\ Len(df.columns) = 2
    /\ Len(df.rows) = 1
    /\ df.rows[1][2] = C30_DataRows[2][2] \o <<",">> \o C30_DataRows[2][3]

============================================================================
